---------------------------- MODULE Spec2Model ----------------------------
(***************************************************************************)
(* amplify-monitor: the log acquisition and failure-classification         *)
(* pipeline (src/src/logs.rs, src/src/parser.rs, src/src/amplify.rs and    *)
(* the Diagnose command of src/src/main.rs), the download of               *)
(* amplify_outputs.json (src/src/logs.rs) and the Gen1 migration analysis  *)
(* (src/src/migration.rs).                                                 *)
(*                                                                         *)
(* Texts are TLA+ strings; `contains` and `to_lowercase` are computed      *)
(* character by character.  Two characters of the source cannot be written *)
(* in a TLA+ string and are transliterated everywhere they occur:          *)
(*   - the backtick (parser.rs:175,177) is written "~";                    *)
(*   - the three non-ASCII characters of the last eslint pattern           *)
(*     (parser.rs:420) are written "<U+00E2><U+0153><U+2013>".             *)
(* No other literal of the source contains "~" or "<U+".                   *)
(***************************************************************************)
EXTENDS Integers, Sequences, FiniteSets, TLC

VARIABLES
    pc,            \* position of the running command / call
    steps,         \* job.steps as returned by the GetJob call (amplify.rs:181-189)
    log_urls,      \* Vec<(step_name, url)> of download_job_logs (logs.rs:33)
    idx,           \* index of the reference the for loop of logs.rs:41 is at
    log_content,   \* LogContent {build_log, deploy_log, raw_content} (logs.rs:16-20)
    requests,      \* history: every HTTP GET issued, the response it got, body read or not
    downloaded,    \* what download_job_logs returned to its caller
    result,        \* what the command / call returned
    input,         \* lines handed to make_logs (integration_tests.rs:9-15)
    issues,        \* Vec<Issue> of analyze_logs (parser.rs:21)
    ck,            \* index of the checker the for loop of parser.rs:48 is at
    evaluated,     \* history: the checkers called so far, in call order
    analyze_calls, \* history: number of analyze_logs calls of the command
    outputs,       \* what the command printed through output() (main.rs:325)
    log_bytes,     \* `bytes` handed to extract_log_content (logs.rs:87)
    format,        \* the branch extract_log_content has taken on the buffer
    zip_content,   \* `content` of extract_from_zip (logs.rs:107)
    file_index,    \* `i` of the for loop of logs.rs:109
    artifact_urls, \* Vec<(step_name, url)> of download_outputs_file (logs.rs:153)
    artifact,      \* index of the artifact the for loop of logs.rs:160 is at
    attempts,      \* history: every artifact GET issued and the response it got
    output_file,   \* the file at output_path: None while it does not exist
    stderr,        \* the warnings printed by eprintln! (logs.rs:178)
    project,       \* the project directory analyze_project looks at
    analysis       \* `analysis: MigrationAnalysis` of analyze_project (migration.rs:103)

vars == <<pc, steps, log_urls, idx, log_content, requests, downloaded, result,
          input, issues, ck, evaluated, analyze_calls, outputs,
          log_bytes, format, zip_content, file_index,
          artifact_urls, artifact, attempts, output_file, stderr,
          project, analysis>>

extract_vars == <<log_bytes, format, zip_content, file_index>>

outputs_vars == <<artifact_urls, artifact, attempts, output_file, stderr>>

migration_vars == <<project, analysis>>

----------------------------------------------------------------------------
(* Bounds of the model *)

\* longest list of job steps the GetJob call returns
MaxSteps == 2
\* largest number of files of a ZIP archive
MaxFiles == 2
\* largest number of lines of a corpus handed to analyze_logs directly
MaxLines == 2

\* artifacts of a job
MaxArtifacts == 2

----------------------------------------------------------------------------
(* str::contains and str::to_lowercase *)

\* s.contains(p): p occurs in s as a contiguous substring
contains(s, p) ==
    LET n == Len(p) - 1
    IN  \E i \in 1..(Len(s) - n) : SubSeq(s, i, i + n) = p

\* the upper-case ASCII letters and their lower-case letters
ascii_lower ==
    "A" :> "a" @@ "B" :> "b" @@ "C" :> "c" @@ "D" :> "d" @@ "E" :> "e"
    @@ "F" :> "f" @@ "G" :> "g" @@ "H" :> "h" @@ "I" :> "i" @@ "J" :> "j"
    @@ "K" :> "k" @@ "L" :> "l" @@ "M" :> "m" @@ "N" :> "n" @@ "O" :> "o"
    @@ "P" :> "p" @@ "Q" :> "q" @@ "R" :> "r" @@ "S" :> "s" @@ "T" :> "t"
    @@ "U" :> "u" @@ "V" :> "v" @@ "W" :> "w" @@ "X" :> "x" @@ "Y" :> "y"
    @@ "Z" :> "z"

\* char::to_lowercase on the ASCII range
to_lowercase_char(c) ==
    IF c \in DOMAIN ascii_lower THEN ascii_lower[c] ELSE c

\* s.to_lowercase(): every character lowered, order and length kept
\* (computed by halves, so that the evaluation depth stays logarithmic)
RECURSIVE to_lowercase(_)
to_lowercase(s) ==
    IF Len(s) = 0 THEN ""
    ELSE IF Len(s) = 1 THEN to_lowercase_char(s)
    ELSE LET h == Len(s) \div 2
         IN  to_lowercase(SubSeq(s, 1, h)) \o to_lowercase(SubSeq(s, h + 1, Len(s)))

\* `for p in patterns { if content.contains(p) ...` reaches its body
any_contains(content, patterns) ==
    \E i \in 1..Len(patterns) : contains(content, patterns[i])

\* p.to_lowercase() for every p of a pattern list
lowered(patterns) == [i \in 1..Len(patterns) |-> to_lowercase(patterns[i])]

\* Option<T>: <<>> is None, <<v>> is Some(v)
None == <<>>
Some(v) == <<v>>

\* Result<T>: Ok(v) or Err(e); Running while the call has not returned
Running == [tag |-> "Running"]
Ok(v) == [tag |-> "Ok", value |-> v]
Err(e) == [tag |-> "Err", error |-> e]

\* an Issue that keeps the first suggested fix only
Issue_first_fix(pattern, root_cause, suggested_fixes) ==
    [pattern |-> pattern, root_cause |-> root_cause,
     suggested_fixes |-> SubSeq(suggested_fixes, 1, 1)]

Issue(pattern, root_cause, suggested_fixes) ==
    [pattern |-> pattern, root_cause |-> root_cause,
     suggested_fixes |-> suggested_fixes]

----------------------------------------------------------------------------
(* The checkers of parser.rs.  A checker returns the same Issue whichever  *)
(* pattern (and indicator) made it return, so its nested loops are the     *)
(* existence of a matching pattern (and of a matching indicator).          *)

\* check_lockfile_mismatch without the npm lock-file name
check_lockfile_mismatch_any_warn(content) ==
    LET has_pnpm_lock == contains(content, "pnpm-lock.yaml")
        has_yarn_lock == contains(content, "yarn.lock")
    IN  IF contains(content, "npm WARN") /\ (has_pnpm_lock \/ has_yarn_lock)
        THEN Some(Issue("lockfile_mismatch",
                 "Multiple lock files detected or package manager mismatch",
                 <<"Remove conflicting lock files (keep only one)",
                   "Update amplify.yml to use the correct package manager",
                   "Run 'npm ci' with package-lock.json OR 'pnpm install --frozen-lockfile' with pnpm-lock.yaml">>))
        ELSE None

check_lockfile_mismatch(content) ==
    LET has_npm_lock_error ==
            /\ contains(content, "npm WARN")
            /\ (contains(content, "package-lock.json")
                \/ contains(content, "npm-shrinkwrap.json"))
        has_pnpm_lock == contains(content, "pnpm-lock.yaml")
        has_yarn_lock == contains(content, "yarn.lock")
    IN  IF has_npm_lock_error /\ (has_pnpm_lock \/ has_yarn_lock)
        THEN Some(Issue("lockfile_mismatch",
                 "Multiple lock files detected or package manager mismatch",
                 <<"Remove conflicting lock files (keep only one)",
                   "Update amplify.yml to use the correct package manager",
                   "Run 'npm ci' with package-lock.json OR 'pnpm install --frozen-lockfile' with pnpm-lock.yaml">>))
        ELSE None

check_package_manager_conflict(content) ==
    LET uses_npm  == contains(content, "npm install") \/ contains(content, "npm ci")
        uses_pnpm == contains(content, "pnpm install")
        uses_yarn == contains(content, "yarn install")
        count == (IF uses_npm THEN 1 ELSE 0) + (IF uses_pnpm THEN 1 ELSE 0)
                 + (IF uses_yarn THEN 1 ELSE 0)
    IN  IF count > 1
        THEN Some(Issue("package_manager_conflict",
                 "Multiple package managers detected in build",
                 <<"Use only one package manager consistently",
                   "Update amplify.yml preBuild and build commands",
                   "Ensure CI environment matches local development">>))
        ELSE None

node_version_patterns ==
    <<"engine \"node\" is incompatible", "The engine \"node\" is incompatible",
      "expected node version", "NODE_VERSION", "nvm use", "unsupported engine">>

node_version_patterns_lower == lowered(node_version_patterns)

check_node_version_mismatch(content) ==
    IF any_contains(to_lowercase(content), node_version_patterns_lower)
    THEN Some(Issue("node_version_mismatch",
             "Node.js version in Amplify doesn't match project requirements",
             <<"Add 'nvm use' to preBuild commands in amplify.yml",
               "Set Node.js version in Amplify console build settings",
               "Add .nvmrc file to repository root",
               "Update package.json engines field">>))
    ELSE None

env_var_patterns ==
    <<"environment variable", "env var", "process.env", "undefined variable",
      "REACT_APP_", "NEXT_PUBLIC_", "VITE_">>
env_var_indicators == <<"undefined", "not set", "missing", "required">>

check_missing_env_vars(content) ==
    IF /\ any_contains(content, env_var_patterns)
       /\ any_contains(to_lowercase(content), env_var_indicators)
    THEN Some(Issue("missing_env_vars",
             "Required environment variables are not configured",
             <<"Add missing environment variables in Amplify console",
               "Check for typos in variable names",
               "Ensure variables are set for the correct branch/environment">>))
    ELSE None

npm_ci_patterns ==
    <<"npm ERR! cipm can only install", "npm ERR! ~npm ci~ can only install",
      "npm ERR! code EUSAGE", "npm ERR! The ~npm ci~ command">>

\* check_npm_ci_failure comparing the lowered content with the patterns
check_npm_ci_failure_lowered_content(content) ==
    IF any_contains(to_lowercase(content), npm_ci_patterns)
    THEN Some(Issue("npm_ci_failure",
             "npm ci failed - likely due to package-lock.json sync issues",
             <<"Run 'npm install' locally to regenerate package-lock.json",
               "Commit the updated package-lock.json",
               "Ensure package-lock.json is not in .gitignore">>))
    ELSE None

check_npm_ci_failure(content) ==
    IF any_contains(content, npm_ci_patterns)
    THEN Some(Issue("npm_ci_failure",
             "npm ci failed - likely due to package-lock.json sync issues",
             <<"Run 'npm install' locally to regenerate package-lock.json",
               "Commit the updated package-lock.json",
               "Ensure package-lock.json is not in .gitignore">>))
    ELSE None

pnpm_patterns ==
    <<"ERR_PNPM_", "pnpm: command not found", "WARN  Moving",
      "ERR_PNPM_PEER_DEP_ISSUES", "ERR_PNPM_LOCKFILE_BREAKING_CHANGE">>

check_pnpm_install_failure(content) ==
    IF any_contains(content, pnpm_patterns)
    THEN Some(Issue("pnpm_install_failure",
             "pnpm installation failed",
             <<"Install pnpm in preBuild: 'npm install -g pnpm'",
               "Run 'pnpm install' locally to update lock file",
               "Check pnpm version compatibility">>))
    ELSE None

yarn_patterns ==
    <<"error An unexpected error occurred", "yarn install", "YN0001", "YN0002",
      "YARN_", "yarn.lock">>
yarn_indicators == <<"error", "failed", "ENOENT", "EPERM">>

yarn_indicators_lower == lowered(yarn_indicators)

check_yarn_install_failure(content) ==
    IF /\ any_contains(content, yarn_patterns)
       /\ any_contains(to_lowercase(content), yarn_indicators_lower)
    THEN Some(Issue("yarn_install_failure",
             "Yarn installation failed",
             <<"Run 'yarn install' locally and commit yarn.lock",
               "Ensure yarn is installed in preBuild: 'npm install -g yarn'",
               "Check yarn version compatibility">>))
    ELSE None

amplify_yml_patterns ==
    <<"amplify.yml", "buildspec", "YAMLException", "Invalid buildspec",
      "build specification">>
amplify_yml_indicators == <<"error", "invalid", "failed to parse", "syntax">>

amplify_yml_patterns_lower == lowered(amplify_yml_patterns)

check_amplify_yml_error(content) ==
    IF LET content_lower == to_lowercase(content)
       IN  /\ any_contains(content_lower, amplify_yml_patterns_lower)
           /\ any_contains(content_lower, amplify_yml_indicators)
    THEN Some(Issue("amplify_yml_error",
             "amplify.yml buildspec has configuration errors",
             <<"Validate YAML syntax in amplify.yml",
               "Check indentation (use spaces, not tabs)",
               "Verify all required phases are defined (preBuild, build, artifacts)",
               "Reference: https://docs.aws.amazon.com/amplify/latest/userguide/build-settings.html">>))
    ELSE None

out_of_memory_patterns ==
    <<"FATAL ERROR: CALL_AND_RETRY_LAST Allocation failed",
      "FATAL ERROR: Ineffective mark-compacts", "JavaScript heap out of memory",
      "ENOMEM", "out of memory", "OOMKilled">>

out_of_memory_patterns_lower == lowered(out_of_memory_patterns)

check_out_of_memory(content) ==
    IF any_contains(to_lowercase(content), out_of_memory_patterns_lower)
    THEN Some(Issue("out_of_memory",
             "Build process ran out of memory",
             <<"Add NODE_OPTIONS=--max_old_space_size=4096 to environment variables",
               "Optimize build by reducing bundle size",
               "Consider using a larger Amplify build instance">>))
    ELSE None

timeout_patterns ==
    <<"timed out", "timeout", "Build timeout", "exceeded time limit", "ETIMEDOUT">>

timeout_patterns_lower == lowered(timeout_patterns)

check_timeout(content) ==
    IF any_contains(to_lowercase(content), timeout_patterns_lower)
    THEN Some(Issue("timeout",
             "Build exceeded time limit",
             <<"Increase build timeout in Amplify console",
               "Optimize build steps to run faster",
               "Check for hanging processes or infinite loops",
               "Consider caching node_modules">>))
    ELSE None

artifact_path_patterns ==
    <<"artifacts baseDirectory", "No such file or directory", "ENOENT",
      "build artifacts not found", "baseDirectory">>
artifact_path_context == <<"artifacts", "output", "dist", "build", ".next">>

check_artifact_path_error(content) ==
    IF /\ any_contains(content, artifact_path_patterns)
       /\ any_contains(content, artifact_path_context)
    THEN Some(Issue("artifact_path_error",
             "Build artifacts directory not found or misconfigured",
             <<"Verify baseDirectory in amplify.yml matches actual build output",
               "Common paths: 'dist', 'build', '.next', 'out'",
               "Ensure build command actually generates output">>))
    ELSE None

typescript_patterns ==
    <<"error TS", "TS2304", "TS2307", "TS2345", "TS2339", "Cannot find module",
      "Type error:", "tsc exited with code">>

check_typescript_error(content) ==
    IF any_contains(content, typescript_patterns)
    THEN Some(Issue("typescript_error",
             "TypeScript compilation failed",
             <<"Fix TypeScript errors locally before pushing",
               "Run 'npx tsc --noEmit' to check for errors",
               "Ensure all type definitions are installed (@types/*)",
               "Check tsconfig.json for correct configuration">>))
    ELSE None

eslint_patterns ==
    <<"eslint", "ESLint", "Parsing error:", "error  ", "<U+00E2><U+0153><U+2013> ">>
eslint_indicators == <<"problems", "error", "Rule:", "eslint-disable">>

check_eslint_error(content) ==
    IF /\ any_contains(content, eslint_patterns)
       /\ any_contains(content, eslint_indicators)
       /\ contains(content, "eslint")
    THEN Some(Issue("eslint_error",
             "ESLint validation failed",
             <<"Run 'npm run lint' or 'npx eslint .' locally",
               "Fix linting errors or adjust rules in .eslintrc",
               "Consider adding 'CI=false' to skip lint warnings as errors">>))
    ELSE None

module_not_found_patterns ==
    <<"Module not found", "Cannot find module", "Module build failed",
      "ModuleNotFoundError", "Error: Cannot resolve">>

check_module_not_found(content) ==
    IF any_contains(content, module_not_found_patterns)
    THEN Some(Issue("module_not_found",
             "Required module/package not found",
             <<"Ensure all dependencies are listed in package.json",
               "Check import paths for typos or case sensitivity",
               "Verify the module is not in devDependencies when needed in production",
               "Run 'npm install' to ensure all packages are installed">>))
    ELSE None

permission_patterns ==
    <<"EACCES", "permission denied", "Permission denied", "EPERM",
      "operation not permitted">>

check_permission_denied(content) ==
    IF any_contains(content, permission_patterns)
    THEN Some(Issue("permission_denied",
             "File system permission error",
             <<"Avoid writing to read-only directories",
               "Use /tmp for temporary files in Amplify builds",
               "Check file permissions in repository">>))
    ELSE None

network_patterns ==
    <<"ENOTFOUND", "ECONNREFUSED", "ECONNRESET", "EAI_AGAIN", "getaddrinfo",
      "network request failed", "socket hang up">>

check_network_error(content) ==
    IF any_contains(content, network_patterns)
    THEN Some(Issue("network_error",
             "Network connectivity issue during build",
             <<"Retry the build - may be a transient network issue",
               "Check if npm registry or external services are accessible",
               "Consider using a private npm registry or cache">>))
    ELSE None

docker_patterns == <<"docker", "Dockerfile", "container", "DOCKER_">>
docker_indicators == <<"error", "failed", "not found", "denied">>

docker_patterns_lower == lowered(docker_patterns)

check_docker_error(content) ==
    IF LET content_lower == to_lowercase(content)
       IN  /\ any_contains(content_lower, docker_patterns_lower)
           /\ any_contains(content_lower, docker_indicators)
    THEN Some(Issue("docker_error",
             "Docker/container build issue",
             <<"Verify Dockerfile syntax and base image availability",
               "Check Docker build context and .dockerignore",
               "Ensure Docker commands are supported in Amplify build environment">>))
    ELSE None

python_patterns ==
    <<"ModuleNotFoundError: No module named", "pip install", "python:",
      "SyntaxError:", "ImportError:">>
python_indicators == <<"error", "failed", "not found">>

\* check_python_error returning on a pattern alone
check_python_error_ungated(content) ==
    IF any_contains(content, python_patterns)
    THEN Some(Issue("python_error",
             "Python dependency or syntax error",
             <<"Add Python packages to requirements.txt",
               "Install Python dependencies in preBuild phase",
               "Verify Python version compatibility">>))
    ELSE None

check_python_error(content) ==
    IF /\ any_contains(content, python_patterns)
       /\ any_contains(to_lowercase(content), python_indicators)
    THEN Some(Issue("python_error",
             "Python dependency or syntax error",
             <<"Add Python packages to requirements.txt",
               "Install Python dependencies in preBuild phase",
               "Verify Python version compatibility">>))
    ELSE None

nextjs_patterns ==
    <<"next build", "Error occurred prerendering", "getStaticProps",
      "getServerSideProps", "next.config", "NEXT_">>
nextjs_indicators == <<"error", "failed", "Error:">>

check_next_js_error(content) ==
    IF /\ any_contains(content, nextjs_patterns)
       /\ any_contains(content, nextjs_indicators)
    THEN Some(Issue("nextjs_error",
             "Next.js build or configuration error",
             <<"Run 'npm run build' locally to reproduce the error",
               "Check getStaticProps/getServerSideProps for runtime errors",
               "Verify NEXT_PUBLIC_* environment variables are set",
               "Set baseDirectory to '.next' in amplify.yml artifacts">>))
    ELSE None

vite_patterns == <<"vite build", "vite:", "VITE_", "rollup", "esbuild">>
vite_indicators == <<"error", "failed", "Error:">>

\* check_vite_error returning on a pattern or an indicator alone
check_vite_error_either(content) ==
    IF \/ any_contains(content, vite_patterns)
       \/ any_contains(content, vite_indicators)
    THEN Some(Issue("vite_error", "Vite build or bundling error",
             <<"Run 'npm run build' locally to reproduce",
               "Verify VITE_* environment variables are set in Amplify",
               "Set baseDirectory to 'dist' in amplify.yml artifacts",
               "Check vite.config.ts for build configuration issues">>))
    ELSE None

check_vite_error(content) ==
    IF /\ any_contains(content, vite_patterns)
       /\ any_contains(content, vite_indicators)
    THEN Some(Issue("vite_error",
             "Vite build or bundling error",
             <<"Run 'npm run build' locally to reproduce",
               "Verify VITE_* environment variables are set in Amplify",
               "Set baseDirectory to 'dist' in amplify.yml artifacts",
               "Check vite.config.ts for build configuration issues">>))
    ELSE None

----------------------------------------------------------------------------
(* analyze_logs (parser.rs:20-55) *)

\* the checkers vector, in registration order (parser.rs:25-46)
checkers ==
    <<"check_lockfile_mismatch", "check_package_manager_conflict",
      "check_node_version_mismatch", "check_missing_env_vars",
      "check_npm_ci_failure", "check_pnpm_install_failure",
      "check_yarn_install_failure", "check_amplify_yml_error",
      "check_out_of_memory", "check_timeout", "check_artifact_path_error",
      "check_typescript_error", "check_eslint_error", "check_module_not_found",
      "check_permission_denied", "check_network_error", "check_docker_error",
      "check_python_error", "check_next_js_error", "check_vite_error">>

\* checker(content) for the function value `checker` of the vector
call_checker(checker, content) ==
    CASE checker = "check_lockfile_mismatch" -> check_lockfile_mismatch(content)
      [] checker = "check_package_manager_conflict" -> check_package_manager_conflict(content)
      [] checker = "check_node_version_mismatch" -> check_node_version_mismatch(content)
      [] checker = "check_missing_env_vars" -> check_missing_env_vars(content)
      [] checker = "check_npm_ci_failure" -> check_npm_ci_failure(content)
      [] checker = "check_pnpm_install_failure" -> check_pnpm_install_failure(content)
      [] checker = "check_yarn_install_failure" -> check_yarn_install_failure(content)
      [] checker = "check_amplify_yml_error" -> check_amplify_yml_error(content)
      [] checker = "check_out_of_memory" -> check_out_of_memory(content)
      [] checker = "check_timeout" -> check_timeout(content)
      [] checker = "check_artifact_path_error" -> check_artifact_path_error(content)
      [] checker = "check_typescript_error" -> check_typescript_error(content)
      [] checker = "check_eslint_error" -> check_eslint_error(content)
      [] checker = "check_module_not_found" -> check_module_not_found(content)
      [] checker = "check_permission_denied" -> check_permission_denied(content)
      [] checker = "check_network_error" -> check_network_error(content)
      [] checker = "check_docker_error" -> check_docker_error(content)
      [] checker = "check_python_error" -> check_python_error(content)
      [] checker = "check_next_js_error" -> check_next_js_error(content)
      [] checker = "check_vite_error" -> check_vite_error(content)

\* the loop body keeping only the first issue found
push_first_only(found, option) ==
    IF option # None /\ found = <<>> THEN Append(found, option[1]) ELSE found

\* the loop body putting a new issue in front of the earlier ones
push_front(found, option) ==
    IF option # None THEN <<option[1]>> \o found ELSE found

\* the body of the for loop: `if let Some(issue) = checker(content) { issues.push(issue) }`
push_if_some(found, option) ==
    IF option # None THEN Append(found, option[1]) ELSE found

\* the loop leaving at the first match
next_checker_break(k, option) ==
    IF option # None THEN Len(checkers) + 1 ELSE k + 1

\* the index the loop is at after the iteration for checker k
next_checker(k, option) == k + 1

\* the loop of parser.rs:48-52 from checker k on, and the `issues` it returns
RECURSIVE analyze_from(_, _, _)
analyze_from(found, k, content) ==
    IF k > Len(checkers) THEN found
    ELSE LET option == call_checker(checkers[k], content)
         IN  analyze_from(push_if_some(found, option), next_checker(k, option), content)

\* the text of the build phase taken for the corpus
content_of_build_log(logs) == logs.build_log

\* `let content = &logs.raw_content;` (parser.rs:22)
content_of(logs) == logs.raw_content

analyze_logs(logs) == analyze_from(<<>>, 1, content_of(logs))

----------------------------------------------------------------------------
(* Direct calls of analyze_logs, as the tests make them *)

\* a corpus handed on with its text in lower case
shared_borrow_lowered(logs) ==
    [logs EXCEPT !.raw_content = to_lowercase(@)]

\* `logs: &LogContent` and `content: &str` (parser.rs:20-22, 50): the callee
\* reads the corpus through a shared reference; to_lowercase() builds a new
\* String (parser.rs:117)
shared_borrow(logs) == logs

\* make_logs of the integration tests
make_logs(content) ==
    [build_log |-> content, deploy_log |-> "", raw_content |-> content]

\* the log lines the corpora are built from
Lines ==
    {"Build completed successfully",
     "npm ERR! code EUSAGE",
     "FATAL ERROR: JavaScript heap out of memory",
     "error TS2339: Property",
     "Cannot find module",
     "The engine \"node\" is incompatible",
     "> next build",
     "> vite build",
     "error during build:",
     "Build timed out after 30 minutes",
     "Docker build FAILED",
     "EACCES: permission denied",
     "ENOTFOUND registry.npmjs.org",
     "ERR_PNPM_LOCKFILE_BREAKING_CHANGE",
     "pnpm install",
     "npm WARN package-lock.json yarn.lock"}

\* every sequence of at most n lines
SeqsUpTo(S, n) == UNION {[1..m -> S] : m \in 0..n}

\* the text of a log: every line followed by a newline
RECURSIVE join_lines(_)
join_lines(ls) ==
    IF ls = <<>> THEN "" ELSE Head(ls) \o "\n" \o join_lines(Tail(ls))

\* no extraction is under way
\* download_outputs_file is not running
OutputsIdle ==
    /\ artifact_urls = <<>>
    /\ artifact = 1
    /\ attempts = <<>>
    /\ output_file = None
    /\ stderr = <<>>

\* analyze_project is not running
MigrationIdle ==
    /\ project = [layout |-> "none"]
    /\ analysis = None

ExtractIdle ==
    /\ log_bytes = <<>>
    /\ format = ""
    /\ zip_content = ""
    /\ file_index = 0

Idle ==
    /\ steps = <<>>
    /\ log_urls = <<>>
    /\ idx = 1
    /\ requests = <<>>
    /\ downloaded = Running
    /\ analyze_calls = 0
    /\ outputs = <<>>

InitClassify ==
    /\ pc = "analyze_logs"
    /\ input \in SeqsUpTo(Lines, MaxLines)
    /\ log_content = make_logs(join_lines(input))
    /\ issues = <<>>
    /\ ck = 1
    /\ evaluated = <<>>
    /\ result = Running
    /\ Idle
    /\ ExtractIdle
    /\ OutputsIdle
    /\ MigrationIdle

\* one iteration of `for checker in checkers` (parser.rs:48-52)
analyze_step ==
    /\ pc = "analyze_logs"
    /\ ck <= Len(checkers)
    /\ LET option == call_checker(checkers[ck], content_of(log_content))
       IN  /\ issues' = push_if_some(issues, option)
           /\ ck' = next_checker(ck, option)
    /\ evaluated' = Append(evaluated, checkers[ck])
    /\ log_content' = shared_borrow(log_content)
    /\ UNCHANGED extract_vars
    /\ UNCHANGED outputs_vars
    /\ UNCHANGED migration_vars
    /\ UNCHANGED <<pc, steps, log_urls, idx, requests, downloaded,
                   result, input, analyze_calls, outputs>>

\* the loop is over: `issues` is returned (parser.rs:54)
analyze_return ==
    /\ pc = "analyze_logs"
    /\ ck > Len(checkers)
    /\ pc' = "returned"
    /\ result' = Ok(issues)
    /\ UNCHANGED extract_vars
    /\ UNCHANGED outputs_vars
    /\ UNCHANGED migration_vars
    /\ UNCHANGED <<steps, log_urls, idx, log_content, requests, downloaded,
                   input, issues, ck, evaluated, analyze_calls, outputs>>

NextClassify == analyze_step \/ analyze_return

SpecClassify == InitClassify /\ [][NextClassify]_vars

\* lines that hold a trigger literal as it is registered, in lower case or
\* in upper case
CaseLines ==
    {"npm ERR! code EUSAGE",
     "npm err! code eusage",
     "NPM ERR! CODE EUSAGE",
     "error ts2339",
     "eacces",
     "enotfound registry.npmjs.org",
     "> NEXT BUILD FAILED",
     "> next build failed",
     "javascript heap out of memory",
     "BUILD TIMED OUT"}

\* analyze_logs on the corpora made of these lines
InitCaseFold ==
    /\ pc = "analyze_logs"
    /\ input \in SeqsUpTo(CaseLines, MaxLines)
    /\ log_content = make_logs(join_lines(input))
    /\ issues = <<>>
    /\ ck = 1
    /\ evaluated = <<>>
    /\ result = Running
    /\ Idle
    /\ ExtractIdle
    /\ OutputsIdle
    /\ MigrationIdle

SpecCaseFold == InitCaseFold /\ [][NextClassify]_vars

\* a line with a signal literal for each rule that also asks for an
\* indicator, and lines with indicator literals, as registered and in upper
\* case
GateLines ==
    {"process.env.API_KEY",
     "amplify.yml",
     "ENOENT",
     "yarn install",
     "ESLint",
     "Dockerfile",
     "pip install",
     "next build",
     "vite build",
     "error",
     "not set",
     "dist",
     "UNDEFINED"}

\* analyze_logs on the corpora made of these lines
InitGate ==
    /\ pc = "analyze_logs"
    /\ input \in SeqsUpTo(GateLines, MaxLines)
    /\ log_content = make_logs(join_lines(input))
    /\ issues = <<>>
    /\ ck = 1
    /\ evaluated = <<>>
    /\ result = Running
    /\ Idle
    /\ ExtractIdle
    /\ OutputsIdle
    /\ MigrationIdle

SpecGate == InitGate /\ [][NextClassify]_vars

\* install commands of the three package managers, npm warnings and lock-file
\* names
InstallLines ==
    {"npm install",
     "npm ci",
     "pnpm install",
     "yarn install",
     "npm WARN deprecated",
     "npm WARN old lockfile package-lock.json",
     "package-lock.json",
     "pnpm-lock.yaml",
     "yarn.lock"}

\* analyze_logs on the corpora made of these lines
InitInstall ==
    /\ pc = "analyze_logs"
    /\ input \in SeqsUpTo(InstallLines, MaxLines)
    /\ log_content = make_logs(join_lines(input))
    /\ issues = <<>>
    /\ ck = 1
    /\ evaluated = <<>>
    /\ result = Running
    /\ Idle
    /\ ExtractIdle
    /\ OutputsIdle
    /\ MigrationIdle

SpecInstall == InitInstall /\ [][NextClassify]_vars

\* for each checker, in registry order, a line that makes it emit its Issue
emit_lines ==
    <<"npm WARN package-lock.json yarn.lock",
      "npm ci && yarn install",
      "unsupported engine",
      "process.env.API_KEY not set",
      "npm ERR! code EUSAGE",
      "ERR_PNPM_PEER_DEP_ISSUES",
      "yarn install failed",
      "amplify.yml syntax",
      "OOMKilled",
      "ETIMEDOUT",
      "baseDirectory dist",
      "error TS2304",
      "eslint: 3 problems",
      "Module not found",
      "EACCES",
      "ECONNRESET",
      "Dockerfile not found",
      "pip install failed",
      "next build failed",
      "vite build failed">>

\* the texts build_log and deploy_log are drawn from
FieldTexts == {"", "npm ERR! code EUSAGE\n", "OOMKilled\n"}

\* analyze_logs on a LogContent whose three public fields are set one by one
\* (logs.rs:16-20): raw_content is empty, one of the lines, or all of them
InitEmit ==
    /\ pc = "analyze_logs"
    /\ input \in {<<>>, emit_lines} \cup {<<emit_lines[i]>> : i \in DOMAIN emit_lines}
    /\ log_content \in {[build_log |-> b, deploy_log |-> d,
                         raw_content |-> join_lines(input)] :
                            b \in FieldTexts, d \in FieldTexts}
    /\ issues = <<>>
    /\ ck = 1
    /\ evaluated = <<>>
    /\ result = Running
    /\ Idle
    /\ ExtractIdle
    /\ OutputsIdle
    /\ MigrationIdle

SpecEmit == InitEmit /\ [][NextClassify]_vars

----------------------------------------------------------------------------
(* get_all_log_urls (amplify.rs:166-192) *)

\* step names the job-detail call may return; the last one holds both keywords
StepNames == {"BUILD", "Build", "DEPLOY", "TEST", "BuildAndDeploy"}

\* the log URL of the i-th step of the job
Url(i) == "https://logs.example/" \o ToString(i)

\* job.steps: each step has a name and may have a log URL
JobSteps ==
    {[i \in 1..Len(s) |->
        [step_name |-> s[i][1],
         log_url |-> IF s[i][2] THEN Some(Url(i)) ELSE None]] :
     s \in SeqsUpTo(StepNames \X BOOLEAN, MaxSteps)}

\* the loop of amplify.rs:183-189: a (step_name, url) pair for every step
\* that has a log URL, in the order of job.steps
RECURSIVE get_all_log_urls(_)
get_all_log_urls(job_steps) ==
    IF job_steps = <<>> THEN <<>>
    ELSE (IF Head(job_steps).log_url # None
          THEN << <<Head(job_steps).step_name, Head(job_steps).log_url[1]>> >>
          ELSE <<>>)
         \o get_all_log_urls(Tail(job_steps))

----------------------------------------------------------------------------
(* extract_log_content, extract_from_zip, extract_from_gzip (logs.rs:87-133) *)
(*                                                                           *)
(* A buffer is its bytes together with what the zip and flate2 crates make  *)
(* of them: `zip` is the outcome of ZipArchive::new (the files of the       *)
(* archive, each with the outcome of by_index and of read_to_string), and   *)
(* `gzip` the outcome of GzDecoder::read_to_string.  Of a container only    *)
(* the four signature bytes are kept in `bytes`.                            *)

\* the ASCII characters 32..95 and 97..126, in code order
printable_low ==
    " !\"#$%&'()*+,-./0123456789:;<=>?@ABCDEFGHIJKLMNOPQRSTUVWXYZ[\\]^_"
printable_high == "abcdefghijklmnopqrstuvwxyz{|}~"

\* the bytes of the line feed and of the characters above
AsciiBytes == {10} \cup (32..95) \cup (97..126)

\* byte values that occur in no UTF-8 encoding
NeverUtf8 == {192, 193} \cup (245..255)

\* the character a byte of AsciiBytes encodes
char_of(b) ==
    IF b = 10 THEN "\n"
    ELSE IF b <= 95 THEN SubSeq(printable_low, b - 31, b - 31)
    ELSE SubSeq(printable_high, b - 96, b - 96)

\* the byte that encodes a character
byte_of ==
    [c \in {char_of(b) : b \in AsciiBytes} |->
        CHOOSE b \in AsciiBytes : char_of(b) = c]

\* str::as_bytes, by which a server turns a text into a body
RECURSIVE as_bytes(_)
as_bytes(text) ==
    IF Len(text) = 0 THEN <<>>
    ELSE <<byte_of[SubSeq(text, 1, 1)]>> \o as_bytes(SubSeq(text, 2, Len(text)))

RECURSIVE decoded(_)
decoded(bytes) ==
    IF bytes = <<>> THEN "" ELSE char_of(Head(bytes)) \o decoded(Tail(bytes))

\* String::from_utf8 (logs.rs:99): a byte that no UTF-8 text holds is an error
from_utf8(bytes) ==
    IF \E k \in 1..Len(bytes) : bytes[k] \in NeverUtf8
    THEN Err("invalid utf-8 sequence")
    ELSE Ok(decoded(bytes))

\* an error of the extraction, with the context the code attaches to it
ExtractionError(message) == Err([kind |-> "extraction", message |-> message])

\* a file of an archive: by_index may fail on it, and so may read_to_string
ZipFile(name, opens, decodes, text) ==
    [name |-> name, opens |-> opens, decodes |-> decodes, text |-> text]

Buffer(bytes, zip, gzip) == [bytes |-> bytes, zip |-> zip, gzip |-> gzip]

\* content.push_str(&file_content); content.push('\n') (logs.rs:118-119)
push_file(content, file_content) == content \o file_content \o "\n"

\* by_index(i) and read_to_string of one file (logs.rs:110-116)
read_file(file, i) ==
    IF ~file.opens
    THEN ExtractionError("Failed to read file at index " \o ToString(i))
    ELSE IF ~file.decodes
    THEN ExtractionError("Failed to read content of " \o file.name)
    ELSE Ok(file.text)

\* the loop of logs.rs:109-120 from index i on
RECURSIVE zip_loop(_, _, _)
zip_loop(archive, i, content) ==
    IF i >= Len(archive) THEN Ok(content)
    ELSE LET r == read_file(archive[i + 1], i)
         IN  IF r.tag = "Err" THEN r
             ELSE zip_loop(archive, i + 1, push_file(content, r.value))

\* ZipArchive::new(cursor).context(..)? (logs.rs:105)
open_archive(zip_bytes) ==
    IF zip_bytes.zip.tag = "Err"
    THEN ExtractionError("Failed to read ZIP archive")
    ELSE zip_bytes.zip

extract_from_zip(zip_bytes) ==
    LET archive == open_archive(zip_bytes)
    IN  IF archive.tag = "Err" THEN archive
        ELSE zip_loop(archive.value, 0, "")

extract_from_gzip(gzip_bytes) ==
    IF gzip_bytes.gzip.tag = "Err"
    THEN ExtractionError("Failed to decompress gzip log")
    ELSE gzip_bytes.gzip

\* logs.rs:89: the ZIP magic bytes (PK)
is_zip(b) == Len(b.bytes) >= 4 /\ b.bytes[1] = 80 /\ b.bytes[2] = 75

\* logs.rs:94: the GZIP magic bytes
is_gzip(b) == Len(b.bytes) >= 2 /\ b.bytes[1] = 31 /\ b.bytes[2] = 139

\* logs.rs:99
decode_plain(b) ==
    LET r == from_utf8(b.bytes)
    IN  IF r.tag = "Err"
        THEN ExtractionError("Failed to decode log as UTF-8 text")
        ELSE r

extract_log_content(b) ==
    IF is_zip(b) THEN extract_from_zip(b)
    ELSE IF is_gzip(b) THEN extract_from_gzip(b)
    ELSE decode_plain(b)

\* the buffers a server may send ---------------------------------------------

\* the outcome of the two crates on bytes that are no container
NoArchive == Err("invalid Zip archive")
NoStream == Err("invalid gzip header")

\* the bytes of a text
plain_buffer(text) == Buffer(as_bytes(text), NoArchive, NoStream)

\* bytes that are neither a text nor a container
raw_buffer(bytes) == Buffer(bytes, NoArchive, NoStream)

\* a ZIP archive of the files: the signature of the first local file header,
\* or of the end-of-central-directory record when there is no file
zip_buffer(files) ==
    Buffer(IF files = <<>> THEN <<80, 75, 5, 6>> ELSE <<80, 75, 3, 4>>,
           Ok(files), NoStream)

\* the GZIP compression of a text, whole or cut short
gzip_buffer(text) == Buffer(<<31, 139, 8, 0>>, NoArchive, Ok(text))
truncated_gzip_buffer == Buffer(<<31, 139, 8, 0>>, NoArchive, Err("unexpected end of file"))

----------------------------------------------------------------------------
(* download_and_extract_log (logs.rs:64-84) *)

\* what a GET may yield: no response at all, or a response with a status
\* and a body that may fail to be read
Response(kind, status, body_read, body) ==
    [kind |-> kind, status |-> status, body_read |-> body_read, body |-> body]

Responses ==
    {Response("transport_error", 0, FALSE, raw_buffer(<<>>))}
    \cup {Response("response", s, FALSE, raw_buffer(<<>>)) : s \in {403, 500}}
    \cup {Response("response", 200, FALSE, raw_buffer(<<>>))}
    \cup {Response("response", 200, TRUE, truncated_gzip_buffer)}
    \cup {Response("response", 200, TRUE, plain_buffer("Build succeeded"))}
    \cup {Response("response", 200, TRUE, gzip_buffer("npm ERR! code EUSAGE\nENOMEM"))}

\* variant: the status of the response is not looked at
is_success_any(status) == TRUE

\* StatusCode::is_success
is_success(status) == status \in 200..299

\* Display of a StatusCode: the code and its canonical reason
status_display(status) ==
    ToString(status) \o " " \o
    (CASE status = 200 -> "OK"
       [] status = 403 -> "Forbidden"
       [] status = 500 -> "Internal Server Error"
       [] OTHER -> "<unknown status code>")

\* variant: a GET that yields no response is reported as a status
transport_context_as_status(url) == "Failed to download logs: HTTP 000"

\* logs.rs:67: the context of a GET that yields no response
transport_context(url) == "Failed to download logs from " \o url

\* logs.rs:70-73: the message of a response whose status is no success
status_message(status) == "Failed to download logs: HTTP " \o status_display(status)

\* the response is read up to its body (logs.rs:76-80 is reached)
reads_body(resp) == resp.kind = "response" /\ is_success(resp.status)

download_and_extract_log(url, resp) ==
    IF resp.kind = "transport_error"
    THEN Err([kind |-> "transport", message |-> transport_context(url)])
    ELSE IF ~is_success(resp.status)
    THEN Err([kind |-> "http_status", message |-> status_message(resp.status)])
    ELSE IF ~resp.body_read
    THEN Err([kind |-> "body", message |-> "Failed to read log response body"])
    ELSE extract_log_content(resp.body)

----------------------------------------------------------------------------
(* download_job_logs (logs.rs:26-61) *)

\* the job the command diagnoses
JobId == "42"

\* LogContent::default()
LogContentDefault == [build_log |-> "", deploy_log |-> "", raw_content |-> ""]

\* variant: the empty list is not rejected
no_log_urls_never(urls) == FALSE

\* log_urls.is_empty() (logs.rs:35)
no_log_urls(urls) == urls = <<>>

\* variant: the loop stays on the reference it has fetched
next_reference_same(i) == i

\* logs.rs:41: the for loop moves on to the next reference
next_reference(i) == i + 1

\* variant: only a failure before the extraction is returned
fetch_failed_before_extraction(r) ==
    r.tag = "Err" /\ r.error.kind \in {"transport", "http_status", "body"}

\* variant: the error of a fetch is dropped and the loop goes on
fetch_failed_never(r) == FALSE

\* the `?` of logs.rs:42: the error of a fetch is returned at once
fetch_failed(r) == r.tag = "Err"

\* `content` of logs.rs:42
fetched_content(r) == IF r.tag = "Ok" THEN r.value ELSE ""

\* variant: the section is put in front of what was assembled so far
push_raw_front(raw_content, step_name, content) ==
    "=== " \o step_name \o " ===\n" \o content \o "\n\n" \o raw_content

\* logs.rs:53-57
push_raw(raw_content, step_name, content) ==
    raw_content \o "=== " \o step_name \o " ===\n" \o content \o "\n\n"

\* variant: the keywords are looked up in the name as it is spelled
step_lower_as_spelled(step_name) == step_name

\* logs.rs:44
step_lower(step_name) == to_lowercase(step_name)

\* logs.rs:44-57: what one fetched step adds to the LogContent
append_step(lc, step_name, content) ==
    LET is_build == contains(step_lower(step_name), "build")
        is_deploy == ~is_build /\ contains(step_lower(step_name), "deploy")
    IN  [build_log |-> IF is_build THEN lc.build_log \o content \o "\n"
                       ELSE lc.build_log,
         deploy_log |-> IF is_deploy THEN lc.deploy_log \o content \o "\n"
                        ELSE lc.deploy_log,
         raw_content |-> push_raw(lc.raw_content, step_name, content)]

ClassifyIdle ==
    /\ input = <<>>
    /\ issues = <<>>
    /\ ck = 1
    /\ evaluated = <<>>

Init ==
    /\ pc = "Diagnose"
    /\ steps \in JobSteps
    /\ log_urls = <<>>
    /\ idx = 1
    /\ log_content = LogContentDefault
    /\ requests = <<>>
    /\ downloaded = Running
    /\ result = Running
    /\ analyze_calls = 0
    /\ outputs = <<>>
    /\ ClassifyIdle
    /\ ExtractIdle
    /\ OutputsIdle
    /\ MigrationIdle

\* main.rs:299-306: the identifiers are resolved and the job is looked up;
\* either may fail, and the command ends with that error
diagnose_get_job ==
    /\ pc = "Diagnose"
    /\ \E found \in BOOLEAN :
          IF found
          THEN /\ pc' = "download_job_logs"
               /\ UNCHANGED result
          ELSE /\ pc' = "exited"
               /\ result' = Err([kind |-> "get_job", message |-> "Job not found"])
    /\ UNCHANGED extract_vars
    /\ UNCHANGED outputs_vars
    /\ UNCHANGED migration_vars
    /\ UNCHANGED <<steps, log_urls, idx, log_content, requests, downloaded,
                   input, issues, ck, evaluated, analyze_calls, outputs>>

\* logs.rs:33-39: the references are listed (the call may fail), an empty
\* list is an error, and the loop starts on an empty LogContent
download_begin ==
    /\ pc = "download_job_logs"
    /\ \E listed \in BOOLEAN :
          IF ~listed
          THEN /\ downloaded' = Err([kind |-> "get_job_details",
                     message |-> "Failed to get job details for " \o JobId])
               /\ pc' = "download_returned"
               /\ UNCHANGED <<log_urls, log_content>>
          ELSE /\ log_urls' = get_all_log_urls(steps)
               /\ IF no_log_urls(log_urls')
                  THEN /\ downloaded' = Err([kind |-> "no_log_urls",
                             message |-> "No log URLs found for job " \o JobId])
                       /\ pc' = "download_returned"
                       /\ UNCHANGED log_content
                  ELSE /\ log_content' = LogContentDefault
                       /\ pc' = "download_loop"
                       /\ UNCHANGED downloaded
    /\ idx' = 1
    /\ UNCHANGED extract_vars
    /\ UNCHANGED outputs_vars
    /\ UNCHANGED migration_vars
    /\ UNCHANGED <<steps, requests, result, input, issues, ck, evaluated,
                   analyze_calls, outputs>>

\* one iteration of the loop of logs.rs:41-58: the GET, the extraction and
\* the appends, or the return of the error
download_step ==
    /\ pc = "download_loop"
    /\ idx <= Len(log_urls)
    /\ \E resp \in Responses :
          LET step_name == log_urls[idx][1]
              url == log_urls[idx][2]
              r == download_and_extract_log(url, resp)
          IN  /\ requests' = Append(requests,
                     [url |-> url, resp |-> resp, bytes_called |-> reads_body(resp)])
              /\ IF fetch_failed(r)
                 THEN /\ downloaded' = Err(r.error)
                      /\ pc' = "download_returned"
                      /\ UNCHANGED <<log_content, idx>>
                 ELSE /\ log_content' =
                            append_step(log_content, step_name, fetched_content(r))
                      /\ idx' = next_reference(idx)
                      /\ UNCHANGED <<downloaded, pc>>
    /\ UNCHANGED extract_vars
    /\ UNCHANGED outputs_vars
    /\ UNCHANGED migration_vars
    /\ UNCHANGED <<steps, log_urls, result, input, issues, ck, evaluated,
                   analyze_calls, outputs>>

\* logs.rs:60
download_return ==
    /\ pc = "download_loop"
    /\ idx > Len(log_urls)
    /\ downloaded' = Ok(log_content)
    /\ pc' = "download_returned"
    /\ UNCHANGED extract_vars
    /\ UNCHANGED outputs_vars
    /\ UNCHANGED migration_vars
    /\ UNCHANGED <<steps, log_urls, idx, log_content, requests, result, input,
                   issues, ck, evaluated, analyze_calls, outputs>>

----------------------------------------------------------------------------
(* Commands::Diagnose (main.rs:293-326) *)

\* variant: the error of the download is dropped
download_failed_never(d) == FALSE

\* the `?` of main.rs:310
download_failed(d) == d.tag = "Err"

\* `log_content` of main.rs:309
downloaded_logs(d) == IF d.tag = "Ok" THEN d.value ELSE LogContentDefault

\* main.rs:309-313: the download has returned; its error ends the command,
\* otherwise the logs are analyzed
diagnose_resume ==
    /\ pc = "download_returned"
    /\ IF download_failed(downloaded)
       THEN /\ result' = downloaded
            /\ pc' = "exited"
            /\ UNCHANGED <<issues, analyze_calls>>
       ELSE /\ issues' = analyze_logs(downloaded_logs(downloaded))
            /\ analyze_calls' = analyze_calls + 1
            /\ pc' = "output"
            /\ UNCHANGED result
    /\ UNCHANGED extract_vars
    /\ UNCHANGED outputs_vars
    /\ UNCHANGED migration_vars
    /\ UNCHANGED <<steps, log_urls, idx, log_content, requests, downloaded,
                   input, ck, evaluated, outputs>>

\* main.rs:316-325: the diagnosis is built and printed; printing may fail
diagnose_output ==
    /\ pc = "output"
    /\ \E include_logs \in BOOLEAN, printed \in BOOLEAN :
          IF printed
          THEN /\ outputs' = Append(outputs,
                     [job_id |-> JobId, issues |-> issues,
                      raw_logs |-> IF include_logs
                                   THEN Some(downloaded_logs(downloaded).raw_content)
                                   ELSE None])
               /\ result' = Ok("()")
          ELSE /\ result' = Err([kind |-> "output", message |-> "output failed"])
               /\ UNCHANGED outputs
    /\ pc' = "exited"
    /\ UNCHANGED extract_vars
    /\ UNCHANGED outputs_vars
    /\ UNCHANGED migration_vars
    /\ UNCHANGED <<steps, log_urls, idx, log_content, requests, downloaded,
                   input, issues, ck, evaluated, analyze_calls>>

Next ==
    \/ diagnose_get_job
    \/ download_begin
    \/ download_step
    \/ download_return
    \/ diagnose_resume
    \/ diagnose_output

Spec == Init /\ [][Next]_vars

----------------------------------------------------------------------------
(* extract_log_content on its own, one step of its control flow at a time *)

\* texts a plain body or a compressed stream may hold
Texts == {"", "P", "PK", "PK!", "PK!!", "ok", "Build completed successfully"}

\* files an archive may hold: two that read well, one that by_index cannot
\* open and one whose content is not UTF-8
Files ==
    {ZipFile("build.log", TRUE, TRUE, "Build completed successfully"),
     ZipFile("deploy.log", TRUE, TRUE, "ok"),
     ZipFile("broken.log", FALSE, FALSE, ""),
     ZipFile("image.bin", TRUE, FALSE, "")}

Buffers ==
    {plain_buffer(text) : text \in Texts}
    \cup {raw_buffer(b) : b \in {<<255>>, <<80, 75, 255>>, <<80, 75, 255, 255>>,
                                 <<31, 139>>, <<31, 139, 255, 255>>}}
    \cup {zip_buffer(files) : files \in SeqsUpTo(Files, MaxFiles)}
    \cup {gzip_buffer(text) : text \in Texts}
    \cup {truncated_gzip_buffer}

InitExtract ==
    /\ pc = "extract_log_content"
    /\ log_bytes \in Buffers
    /\ format = ""
    /\ zip_content = ""
    /\ file_index = 0
    /\ result = Running
    /\ log_content = LogContentDefault
    /\ Idle
    /\ ClassifyIdle
    /\ OutputsIdle
    /\ MigrationIdle

\* logs.rs:89-99: the format is decided; a ZIP archive is opened (logs.rs:105)
extract_sniff ==
    /\ pc = "extract_log_content"
    /\ IF is_zip(log_bytes)
       THEN /\ format' = "zip"
            /\ IF open_archive(log_bytes).tag = "Err"
               THEN /\ result' = open_archive(log_bytes)
                    /\ pc' = "extracted"
               ELSE /\ pc' = "extract_from_zip"
                    /\ UNCHANGED result
       ELSE IF is_gzip(log_bytes)
       THEN /\ format' = "gzip"
            /\ pc' = "extract_from_gzip"
            /\ UNCHANGED result
       ELSE /\ format' = "plain"
            /\ pc' = "from_utf8"
            /\ UNCHANGED result
    /\ UNCHANGED <<log_bytes, zip_content, file_index>>
    /\ UNCHANGED outputs_vars
    /\ UNCHANGED migration_vars
    /\ UNCHANGED <<steps, log_urls, idx, log_content, requests, downloaded,
                   input, issues, ck, evaluated, analyze_calls, outputs>>

\* one iteration of the loop of logs.rs:109-120
zip_file ==
    /\ pc = "extract_from_zip"
    /\ file_index < Len(log_bytes.zip.value)
    /\ LET r == read_file(log_bytes.zip.value[file_index + 1], file_index)
       IN  IF r.tag = "Err"
           THEN /\ result' = r
                /\ pc' = "extracted"
                /\ UNCHANGED <<zip_content, file_index>>
           ELSE /\ zip_content' = push_file(zip_content, r.value)
                /\ file_index' = file_index + 1
                /\ UNCHANGED <<result, pc>>
    /\ UNCHANGED <<log_bytes, format>>
    /\ UNCHANGED outputs_vars
    /\ UNCHANGED migration_vars
    /\ UNCHANGED <<steps, log_urls, idx, log_content, requests, downloaded,
                   input, issues, ck, evaluated, analyze_calls, outputs>>

\* logs.rs:122
zip_return ==
    /\ pc = "extract_from_zip"
    /\ file_index >= Len(log_bytes.zip.value)
    /\ result' = Ok(zip_content)
    /\ pc' = "extracted"
    /\ UNCHANGED <<log_bytes, format, zip_content, file_index>>
    /\ UNCHANGED outputs_vars
    /\ UNCHANGED migration_vars
    /\ UNCHANGED <<steps, log_urls, idx, log_content, requests, downloaded,
                   input, issues, ck, evaluated, analyze_calls, outputs>>

\* logs.rs:95
gzip_decode ==
    /\ pc = "extract_from_gzip"
    /\ result' = extract_from_gzip(log_bytes)
    /\ pc' = "extracted"
    /\ UNCHANGED <<log_bytes, format, zip_content, file_index>>
    /\ UNCHANGED outputs_vars
    /\ UNCHANGED migration_vars
    /\ UNCHANGED <<steps, log_urls, idx, log_content, requests, downloaded,
                   input, issues, ck, evaluated, analyze_calls, outputs>>

\* logs.rs:99
plain_decode ==
    /\ pc = "from_utf8"
    /\ result' = decode_plain(log_bytes)
    /\ pc' = "extracted"
    /\ UNCHANGED <<log_bytes, format, zip_content, file_index>>
    /\ UNCHANGED outputs_vars
    /\ UNCHANGED migration_vars
    /\ UNCHANGED <<steps, log_urls, idx, log_content, requests, downloaded,
                   input, issues, ck, evaluated, analyze_calls, outputs>>

NextExtract ==
    \/ extract_sniff
    \/ zip_file
    \/ zip_return
    \/ gzip_decode
    \/ plain_decode

SpecExtract == InitExtract /\ [][NextExtract]_vars

----------------------------------------------------------------------------
(* download_outputs_file, download_and_find_outputs and                     *)
(* extract_outputs_from_zip (logs.rs:145-246)                               *)

\* file_name.contains("amplify_outputs.json")
\*     || file_name.ends_with("amplify_outputs.json") (logs.rs:235-236)
is_outputs_name(name) ==
    LET file_name == to_lowercase(name)
        suffix == "amplify_outputs.json"
    IN  \/ contains(file_name, suffix)
        \/ /\ Len(file_name) >= Len(suffix)
           /\ SubSeq(file_name, Len(file_name) - Len(suffix) + 1, Len(file_name)) = suffix

\* the loop of logs.rs:230-242 from index i on
RECURSIVE outputs_loop(_, _)
outputs_loop(archive, i) ==
    IF i >= Len(archive) THEN Ok(None)
    ELSE LET file == archive[i + 1]
         IN  IF ~file.opens
             THEN ExtractionError("Failed to read file at index " \o ToString(i))
             ELSE IF is_outputs_name(file.name)
             THEN IF ~file.decodes
                  THEN ExtractionError("Failed to read content of " \o file.name)
                  ELSE Ok(Some(file.text))
             ELSE outputs_loop(archive, i + 1)

extract_outputs_from_zip(zip_bytes) ==
    LET archive == open_archive(zip_bytes)
    IN  IF archive.tag = "Err" THEN archive
        ELSE outputs_loop(archive.value, 0)

\* logs.rs:215: content.contains("\"version\"") && content.contains("\"auth\"")
\*     || content.contains("\"data\"")
looks_like_outputs(content) ==
    \/ contains(content, "\"version\"") /\ contains(content, "\"auth\"")
    \/ contains(content, "\"data\"")

\* logs.rs:214-220: the body is the JSON file itself
find_in_plain(b) ==
    LET r == from_utf8(b.bytes)
    IN  IF r.tag = "Ok" /\ looks_like_outputs(r.value)
        THEN Ok(Some(r.value))
        ELSE Ok(None)

download_and_find_outputs(url, resp) ==
    IF resp.kind = "transport_error"
    THEN Err([kind |-> "transport",
              message |-> "Failed to download artifact from " \o url])
    ELSE IF ~is_success(resp.status)
    THEN Err([kind |-> "http_status",
              message |-> "Failed to download artifact: HTTP " \o status_display(resp.status)])
    ELSE IF ~resp.body_read
    THEN Err([kind |-> "body", message |-> "Failed to read artifact response body"])
    ELSE IF is_zip(resp.body) THEN extract_outputs_from_zip(resp.body)
    ELSE find_in_plain(resp.body)

\* the artifacts a server may send --------------------------------------------

OutputsJson == "{\"version\":\"1\",\"auth\":{}}"

\* what the GET of an artifact may yield: no response, a status that is no
\* success, a body that cannot be read, ZIP archives with and without the
\* file, with a file that cannot be opened or read, bytes with the ZIP
\* signature that ZipArchive::new rejects, and bodies that are no archive
ArtifactResponses ==
    {Response("transport_error", 0, FALSE, raw_buffer(<<>>)),
     Response("response", 403, FALSE, raw_buffer(<<>>)),
     Response("response", 200, FALSE, raw_buffer(<<>>))}
    \cup {Response("response", 200, TRUE, b) : b \in
            {zip_buffer(<<ZipFile("amplify_outputs.json", TRUE, TRUE, OutputsJson)>>),
             zip_buffer(<<ZipFile("index.html", TRUE, TRUE, "<html>"),
                          ZipFile("dist/AMPLIFY_OUTPUTS.JSON", TRUE, TRUE,
                                  "{\"data\":{}}")>>),
             zip_buffer(<<ZipFile("index.html", TRUE, TRUE, "<html>")>>),
             zip_buffer(<<ZipFile("index.html", FALSE, TRUE, "<html>"),
                          ZipFile("amplify_outputs.json", TRUE, TRUE, OutputsJson)>>),
             zip_buffer(<<ZipFile("amplify_outputs.json", TRUE, FALSE, "")>>),
             Buffer(<<80, 75, 3, 4>>, NoArchive, NoStream),
             plain_buffer(OutputsJson),
             plain_buffer("{\"data\":{}}"),
             plain_buffer("Not Found"),
             raw_buffer(<<80, 75>>),
             raw_buffer(<<255>>)}}

\* the (step_name, url) pairs amplify::get_artifact_urls may return
ArtifactLists ==
    {[i \in 1..n |-> <<IF i = 1 THEN "BUILD" ELSE "DEPLOY", Url(i)>>] :
        n \in 0..MaxArtifacts}

\* `output_path` of the call
OutputPath == "amplify_outputs.json"

\* variant: the file is left as it was
write_output_nothing(file, content) == file

\* std::fs::write(output_path, &content) (logs.rs:164)
write_output(file, content) == Some(content)

InitOutputs ==
    /\ pc = "download_outputs_file"
    /\ result = Running
    /\ log_content = LogContentDefault
    /\ Idle
    /\ ClassifyIdle
    /\ ExtractIdle
    /\ OutputsIdle
    /\ MigrationIdle

\* logs.rs:153-157: the artifact URLs of the job are looked up; the lookup may
\* fail, and an empty list is an error
outputs_begin ==
    /\ pc = "download_outputs_file"
    /\ \E listed \in BOOLEAN :
          IF ~listed
          THEN /\ result' = Err([kind |-> "get_artifact_urls",
                                 message |-> "Failed to get artifacts of job " \o JobId])
               /\ pc' = "outputs_returned"
               /\ UNCHANGED artifact_urls
          ELSE \E urls \in ArtifactLists :
                  /\ artifact_urls' = urls
                  /\ IF urls = <<>>
                     THEN /\ result' = Err([kind |-> "no_artifacts",
                                 message |-> "No artifacts found for job " \o JobId])
                          /\ pc' = "outputs_returned"
                     ELSE /\ pc' = "outputs_loop"
                          /\ UNCHANGED result
    /\ UNCHANGED <<artifact, attempts, output_file, stderr>>
    /\ UNCHANGED extract_vars
    /\ UNCHANGED migration_vars
    /\ UNCHANGED <<steps, log_urls, idx, log_content, requests, downloaded,
                   input, issues, ck, evaluated, analyze_calls, outputs>>

\* one iteration of the loop of logs.rs:160-182: the GET and the search; the
\* file is written and the call returns, or the loop goes on
outputs_step ==
    /\ pc = "outputs_loop"
    /\ artifact <= Len(artifact_urls)
    /\ \E resp \in ArtifactResponses :
          LET step_name == artifact_urls[artifact][1]
              url == artifact_urls[artifact][2]
              r == download_and_find_outputs(url, resp)
          IN  /\ attempts' = Append(attempts, [url |-> url, resp |-> resp])
              /\ IF r.tag = "Ok" /\ r.value # None
                 THEN /\ pc' = "outputs_returned"
                      /\ \E written \in BOOLEAN :
                            IF written
                            THEN /\ output_file' = write_output(output_file, r.value[1])
                                 /\ result' = Ok([file_path |-> OutputPath,
                                                  content |-> r.value[1]])
                            ELSE /\ result' = Err([kind |-> "write",
                                        message |-> "Failed to write to " \o OutputPath])
                                 /\ UNCHANGED output_file
                      /\ UNCHANGED <<artifact, stderr>>
                 ELSE /\ artifact' = artifact + 1
                      /\ stderr' = IF r.tag = "Err"
                                   THEN Append(stderr,
                                            "Warning: Failed to process artifact from "
                                            \o step_name \o ": " \o r.error.message)
                                   ELSE stderr
                      /\ UNCHANGED <<pc, result, output_file>>
    /\ UNCHANGED artifact_urls
    /\ UNCHANGED extract_vars
    /\ UNCHANGED migration_vars
    /\ UNCHANGED <<steps, log_urls, idx, log_content, requests, downloaded,
                   input, issues, ck, evaluated, analyze_calls, outputs>>

\* logs.rs:184-186: no artifact held the file
outputs_not_found ==
    /\ pc = "outputs_loop"
    /\ artifact > Len(artifact_urls)
    /\ result' = Err([kind |-> "not_found",
          message |-> "amplify_outputs.json not found in job artifacts. Make sure the build produces this file."])
    /\ pc' = "outputs_returned"
    /\ UNCHANGED outputs_vars
    /\ UNCHANGED extract_vars
    /\ UNCHANGED migration_vars
    /\ UNCHANGED <<steps, log_urls, idx, log_content, requests, downloaded,
                   input, issues, ck, evaluated, analyze_calls, outputs>>

NextOutputs == outputs_begin \/ outputs_step \/ outputs_not_found

SpecOutputs == InitOutputs /\ [][NextOutputs]_vars

----------------------------------------------------------------------------
(* analyze_project and MigrationAnalysis (migration.rs:60-571)               *)
(*                                                                           *)
(* A project directory is what analyze_project reads of it: which of the     *)
(* directories exist and the text of the files it opens.  Of a               *)
(* DetectedFeature the category, the feature and the compatibility are kept. *)

\* CompatibilityStatus (migration.rs:14-24)
Supported == [tag |-> "Supported"]
SupportedWithCdk == [tag |-> "SupportedWithCdk"]
NotSupported(alternative) == [tag |-> "NotSupported", alternative |-> alternative]
ManualMigration(reason) == [tag |-> "ManualMigration", reason |-> reason]

DetectedFeature(category, feature, compatibility) ==
    [category |-> category, feature |-> feature, compatibility |-> compatibility]

\* MigrationAnalysis::new (migration.rs:61-78)
MigrationAnalysis_new(project_path) ==
    [generation |-> "Unknown",
     project_path |-> project_path,
     categories_detected |-> <<>>,
     features |-> <<>>,
     ready_for_migration |-> TRUE,
     blocking_issues |-> <<>>,
     warnings |-> <<>>,
     summary |-> [total_features |-> 0, fully_supported |-> 0,
                  supported_with_cdk |-> 0, not_supported |-> 0,
                  manual_migration |-> 0]]

\* self.features.iter().filter(|f| matches!(f.compatibility, ..)).count()
count_features(features, tag) ==
    Cardinality({i \in 1..Len(features) : features[i].compatibility.tag = tag})

\* migration.rs:80-98
compute_summary(a) ==
    LET summary ==
            [total_features |-> Len(a.features),
             fully_supported |-> count_features(a.features, "Supported"),
             supported_with_cdk |-> count_features(a.features, "SupportedWithCdk"),
             not_supported |-> count_features(a.features, "NotSupported"),
             manual_migration |-> count_features(a.features, "ManualMigration")]
    IN  [a EXCEPT !.summary = summary,
                  !.ready_for_migration =
                      (a.blocking_issues = <<>> /\ summary.not_supported = 0)]

\* analysis.features.push(..), analysis.blocking_issues.push(..),
\* analysis.warnings.push(..), analysis.categories_detected.push(..)
push_feature(a, category, feature, compatibility) ==
    [a EXCEPT !.features = Append(@, DetectedFeature(category, feature, compatibility))]
push_blocking(a, issue) == [a EXCEPT !.blocking_issues = Append(@, issue)]
push_warning(a, text) == [a EXCEPT !.warnings = Append(@, text)]
push_category(a, category) == [a EXCEPT !.categories_detected = Append(@, category)]

\* migration.rs:198-311
analyze_graphql_schema(content, a) ==
    LET a1 == IF contains(content, "@searchable")
              THEN push_blocking(
                       push_feature(a, "api", "@searchable directive",
                           NotSupported("Use Zero-ETL DynamoDB-to-OpenSearch integration")),
                       "@searchable directive is not supported in Gen2")
              ELSE a
        a2 == IF contains(content, "@predictions")
              THEN push_blocking(
                       push_feature(a1, "api", "@predictions directive",
                           NotSupported("Use AI service integrations directly")),
                       "@predictions directive is not supported in Gen2")
              ELSE a1
        a3 == IF contains(content, "@model")
              THEN push_feature(a2, "api", "@model directive", Supported)
              ELSE a2
        a4 == IF contains(content, "@manyToMany")
              THEN push_warning(
                       push_feature(a3, "api", "@manyToMany directive",
                           ManualMigration("Implement with intermediate join table")),
                       "@manyToMany requires manual migration with join table")
              ELSE a3
        a5 == IF contains(content, "@versioned") \/ contains(content, "_version")
              THEN push_blocking(
                       push_feature(a4, "api", "DataStore / Conflict Resolution",
                           NotSupported("DataStore migration guide coming soon")),
                       "DataStore is not supported in Gen2")
              ELSE a4
        a6 == IF contains(content, "@function")
              THEN push_feature(a5, "api", "@function resolver", Supported)
              ELSE a5
        a7 == IF contains(content, "@auth")
              THEN push_feature(a6, "api", "@auth directive", Supported)
              ELSE a6
    IN  IF contains(content, "@http")
        THEN push_feature(a7, "api", "@http directive", Supported)
        ELSE a7

\* migration.rs:322-371: one cli-inputs.json of amplify/backend/auth
analyze_auth_inputs(content, a) ==
    LET a1 == IF contains(content, "\"adminQueries\"") \/ contains(content, "adminQueries")
              THEN push_feature(a, "auth", "Admin Queries", SupportedWithCdk)
              ELSE a
        a2 == IF contains(content, "\"mfaConfiguration\"")
              THEN push_feature(a1, "auth", "MFA Configuration", Supported)
              ELSE a1
        a3 == IF contains(content, "\"hostedUI\"") \/ contains(content, "\"oAuth\"")
              THEN push_feature(a2, "auth", "OAuth/Social Login", Supported)
              ELSE a2
    IN  IF contains(content, "\"triggers\"")
        THEN push_feature(a3, "auth", "Auth Triggers", Supported)
        ELSE a3

\* migration.rs:380-410: the directory amplify/backend/storage and one
\* cli-inputs.json of it
analyze_storage_inputs(content, a) ==
    LET a1 == push_feature(a, "storage", "S3 Storage", Supported)
    IN  IF contains(content, "\"triggerFunction\"")
        THEN push_feature(a1, "storage", "S3 Lambda Trigger", Supported)
        ELSE a1

\* migration.rs:428-475: the function-parameters.json of one function
analyze_function_parameters(function_name, content, a) ==
    LET a1 == IF contains(content, "\"lambdaLayers\"") \/ contains(content, "\"layers\"")
              THEN push_warning(
                       push_feature(a, "function",
                           "Lambda Layers (" \o function_name \o ")",
                           NotSupported("Bundle dependencies directly or use CDK")),
                       "Lambda layers in function '" \o function_name
                           \o "' need alternative approach")
              ELSE a
    IN  IF contains(content, "\"python\"")
        THEN push_feature(a1, "function",
                 "Python Runtime (" \o function_name \o ")", SupportedWithCdk)
        ELSE IF \/ contains(content, "\"go\"") \/ contains(content, "\"java\"")
                \/ contains(content, "\"dotnet\"")
        THEN push_feature(a1, "function",
                 "Non-Node Runtime (" \o function_name \o ")", SupportedWithCdk)
        ELSE push_feature(a1, "function",
                 "Node.js Function (" \o function_name \o ")", Supported)

\* migration.rs:484-500
check_transformers(content, a) ==
    IF contains(content, "\"transformers\"")
    THEN push_blocking(
             push_feature(a, "api", "Custom GraphQL Transformers",
                 NotSupported("Use custom business logic in handlers")),
             "Custom GraphQL transformers not supported")
    ELSE a

\* migration.rs:503-543: the geo, analytics and interactions directories
check_category(a, dirs, category, feature) ==
    IF category \in dirs
    THEN push_feature(push_category(a, category), category, feature, SupportedWithCdk)
    ELSE a

\* migration.rs:546-568: one cli-inputs.json of amplify/backend/api
check_rest_api(content, a) ==
    IF contains(content, "\"REST\"")
    THEN push_feature(a, "api", "REST API", SupportedWithCdk)
    ELSE a

\* the project directories ---------------------------------------------------

OptionOf(S) == {None} \cup {Some(x) : x \in S}

\* the project directories.  A Gen1 project is the files that exist, with
\* their text, and the files and directories of amplify/backend that cannot
\* be read; amplify/backend/api exists when one of its files does:
\*   schema          amplify/backend/api/<name>/schema.graphql
\*   auth            amplify/backend/auth/<name>/cli-inputs.json
\*   storage         amplify/backend/storage/<name>/cli-inputs.json
\*   function        amplify/backend/function/resize/function-parameters.json
\*   transform_conf  amplify/backend/api/transform.conf.json
\*   api_inputs      amplify/backend/api/<name>/cli-inputs.json
\* The two other projects are a directory with amplify/backend.ts and one
\* without amplify/.
Projects ==
    [layout : {"gen1"},
     schema : OptionOf(
         {"type Todo @model @auth(rules: [{allow: owner}])",
          "type Post @model @searchable",
          "type Tag @model { posts: [Post] @manyToMany }",
          "type Note @model @versioned",
          "type Query { say: String @predictions @function(name: \"say\") @http }"}),
     auth : OptionOf(
         {"{\"adminQueries\":true,\"mfaConfiguration\":\"OFF\",\"hostedUI\":true,\"triggers\":{}}"}),
     storage : OptionOf({"{}", "{\"triggerFunction\":\"onUpload\"}"}),
     function : OptionOf(
         {"{\"runtime\":\"nodejs\"}",
          "{\"lambdaLayers\":[{}]}",
          "{\"runtime\":\"python\",\"layers\":[]}",
          "{\"runtime\":\"go\"}"}),
     transform_conf : OptionOf({"{\"transformers\":[]}"}),
     api_inputs : OptionOf({"{\"apiType\":\"REST\"}"}),
     dirs : {{}, {"geo"}, {"geo", "analytics", "interactions"}},
     unreadable : {{}, {"backend-config.json"}, {"function"}}]
    \cup
    [layout : {"gen2", "none"},
     schema : {None}, auth : {None}, storage : {None}, function : {None},
     transform_conf : {None}, api_inputs : {None}, dirs : {{}},
     unreadable : {{}}]

\* amplify/backend/api exists
api_exists(p) == p.schema # None \/ p.transform_conf # None \/ p.api_inputs # None

\* the categories backend-config.json lists: those of the directories
backend_config(p) ==
    (IF api_exists(p) THEN <<"api">> ELSE <<>>)
    \o (IF p.auth # None THEN <<"auth">> ELSE <<>>)
    \o (IF p.storage # None THEN <<"storage">> ELSE <<>>)
    \o (IF p.function # None THEN <<"function">> ELSE <<>>)

\* the `?` of a std::fs::read_to_string or read_dir that fails
io_error == Err([kind |-> "io", message |-> "Permission denied (os error 13)"])

InitMigration ==
    /\ pc = "analyze_project"
    /\ project \in Projects
    /\ analysis = MigrationAnalysis_new("/work/app")
    /\ result = Running
    /\ log_content = LogContentDefault
    /\ Idle
    /\ ClassifyIdle
    /\ ExtractIdle
    /\ OutputsIdle

\* what an action of analyze_project leaves alone
migration_frame ==
    /\ UNCHANGED project
    /\ UNCHANGED outputs_vars
    /\ UNCHANGED extract_vars
    /\ UNCHANGED <<steps, log_urls, idx, log_content, requests, downloaded,
                   input, issues, ck, evaluated, analyze_calls, outputs>>

\* migration.rs:104-121: the generation is decided; a Gen2 project and a
\* directory without amplify/ are returned at once
analyze_project ==
    /\ pc = "analyze_project"
    /\ IF project.layout = "gen2"
       THEN /\ analysis' = [analysis EXCEPT !.generation = "Gen2"]
            /\ result' = Ok(analysis')
            /\ pc' = "migration_returned"
       ELSE IF project.layout = "none"
       THEN /\ analysis' = push_warning([analysis EXCEPT !.generation = "Unknown"],
                  "No amplify/ folder found. This may not be an Amplify project.")
            /\ result' = Ok(analysis')
            /\ pc' = "migration_returned"
       ELSE /\ analysis' = [analysis EXCEPT !.generation = "Gen1"]
            /\ pc' = "analyze_backend_config"
            /\ UNCHANGED result
    /\ migration_frame

\* the end of one analyzer of migration.rs:123-158: it fails when it reads
\* `path` and the read fails, and otherwise leaves `updated` in analysis
analyzer_returns(reads, path, updated, then) ==
    IF reads /\ path \in project.unreadable
    THEN /\ result' = io_error
         /\ pc' = "migration_returned"
         /\ UNCHANGED analysis
    ELSE /\ analysis' = updated
         /\ pc' = then
         /\ UNCHANGED result

RECURSIVE push_new_categories(_, _)
\* migration.rs:168-174
push_new_categories(a, categories) ==
    IF categories = <<>> THEN a
    ELSE push_new_categories(
             IF \E i \in 1..Len(a.categories_detected) :
                    a.categories_detected[i] = Head(categories)
             THEN a
             ELSE push_category(a, Head(categories)),
             Tail(categories))

\* migration.rs:124-127, 164-177
analyze_backend_config ==
    /\ pc = "analyze_backend_config"
    /\ analyzer_returns(backend_config(project) # <<>>, "backend-config.json",
           push_new_categories(analysis, backend_config(project)),
           "analyze_graphql_api")
    /\ migration_frame

\* migration.rs:130-133, 179-196
analyze_graphql_api ==
    /\ pc = "analyze_graphql_api"
    /\ analyzer_returns(api_exists(project), "api",
           IF ~api_exists(project) THEN analysis
           ELSE IF project.schema = None THEN push_category(analysis, "api")
           ELSE analyze_graphql_schema(project.schema[1],
                                       push_category(analysis, "api")),
           "analyze_auth")
    /\ migration_frame

\* migration.rs:136-140, 313-377
analyze_auth ==
    /\ pc = "analyze_auth"
    /\ analyzer_returns(project.auth # None, "auth",
           IF project.auth = None THEN analysis
           ELSE push_category(analyze_auth_inputs(project.auth[1], analysis), "auth"),
           "analyze_storage")
    /\ migration_frame

\* migration.rs:143-147, 379-413
analyze_storage ==
    /\ pc = "analyze_storage"
    /\ analyzer_returns(project.storage # None, "storage",
           IF project.storage = None THEN analysis
           ELSE push_category(analyze_storage_inputs(project.storage[1], analysis),
                              "storage"),
           "analyze_functions")
    /\ migration_frame

\* migration.rs:150-154, 415-480
analyze_functions ==
    /\ pc = "analyze_functions"
    /\ analyzer_returns(project.function # None, "function",
           IF project.function = None THEN analysis
           ELSE push_category(
                    analyze_function_parameters("resize", project.function[1],
                                                analysis),
                    "function"),
           "check_deprecated_patterns")
    /\ migration_frame

\* migration.rs:157, 482-571
check_deprecated_patterns ==
    /\ pc = "check_deprecated_patterns"
    /\ analyzer_returns(api_exists(project), "api",
           LET a1 == IF project.transform_conf # None
                     THEN check_transformers(project.transform_conf[1], analysis)
                     ELSE analysis
               a2 == check_category(a1, project.dirs, "geo", "Location Services (Geo)")
               a3 == check_category(a2, project.dirs, "analytics", "Analytics (Pinpoint)")
               a4 == check_category(a3, project.dirs, "interactions",
                                    "Interactions (Lex Bots)")
           IN  IF project.api_inputs # None
               THEN check_rest_api(project.api_inputs[1], a4)
               ELSE a4,
           "compute_summary")
    /\ migration_frame

\* migration.rs:160-161
analyze_project_return ==
    /\ pc = "compute_summary"
    /\ analysis' = compute_summary(analysis)
    /\ result' = Ok(analysis')
    /\ pc' = "migration_returned"
    /\ migration_frame

NextMigration ==
    \/ analyze_project
    \/ analyze_backend_config
    \/ analyze_graphql_api
    \/ analyze_auth
    \/ analyze_storage
    \/ analyze_functions
    \/ check_deprecated_patterns
    \/ analyze_project_return

SpecMigration == InitMigration /\ [][NextMigration]_vars

----------------------------------------------------------------------------
(* Properties of analyze_logs, checked under SpecClassify *)

raw == log_content.raw_content

\* the pattern tags of the rules, in registration order
registered_tags ==
    <<"lockfile_mismatch", "package_manager_conflict", "node_version_mismatch",
      "missing_env_vars", "npm_ci_failure", "pnpm_install_failure",
      "yarn_install_failure", "amplify_yml_error", "out_of_memory", "timeout",
      "artifact_path_error", "typescript_error", "eslint_error",
      "module_not_found", "permission_denied", "network_error", "docker_error",
      "python_error", "nextjs_error", "vite_error">>

issue_tags == {issues[i].pattern : i \in 1..Len(issues)}

tag_count(tag) == Cardinality({i \in 1..Len(issues) : issues[i].pattern = tag})

\* C1: every checker of the registry is called exactly once, in registry
\* order, whether or not an earlier checker matched: at every point of the
\* loop the calls made so far are exactly the checkers before the loop index,
\* and the loop returns only after the last checker was called.
Thm_C1 ==
    /\ ck \in 1..(Len(checkers) + 1)
    /\ evaluated = SubSeq(checkers, 1, ck - 1)
    /\ (pc = "returned" => evaluated = checkers)

\* the first checker matched, and all twenty were called
Wit_C1 ==
    /\ pc = "returned"
    /\ Len(issues) >= 2
    /\ issues[1].pattern = "lockfile_mismatch"
    /\ Len(evaluated) = Len(checkers)

\* the rules whose checker returns an issue on the content
matching(content) ==
    {k \in 1..Len(checkers) : call_checker(checkers[k], content) # None}

\* the lines with the first two exchanged, and with the first moved to the end
swapped(ls) == IF Len(ls) < 2 THEN ls ELSE <<ls[2], ls[1]>> \o SubSeq(ls, 3, Len(ls))
rotated(ls) == IF Len(ls) < 2 THEN ls ELSE Tail(ls) \o <<Head(ls)>>

\* C2: the tags returned are exactly the tags of the rules that match the
\* content, one issue per matching rule and no tag twice, and the returned
\* list does not depend on where in the text the triggers are: it is the
\* list returned for the text with two lines exchanged and for the text with
\* a line moved to the end (every reordering of the lines is a composition of
\* these two, and every reordering of a corpus is a corpus).
Thm_C2 ==
    pc = "returned" =>
        /\ LET m == matching(raw)
           IN  /\ issue_tags = {registered_tags[k] : k \in m}
               /\ Len(issues) = Cardinality(m)
        /\ \A i, j \in 1..Len(issues) :
              i # j => issues[i].pattern # issues[j].pattern
        /\ issues = analyze_logs(make_logs(join_lines(swapped(input))))
        /\ issues = analyze_logs(make_logs(join_lines(rotated(input))))

\* triggers of two rules, in the text in the reverse of registration order
Wit_C2 ==
    /\ pc = "returned"
    /\ input = <<"FATAL ERROR: JavaScript heap out of memory", "npm ERR! code EUSAGE">>
    /\ issue_tags = {"npm_ci_failure", "out_of_memory"}
    /\ Len(issues) = 2

\* C3: the issues are in registration order: of any two issues, the one whose
\* tag is registered earlier comes first.
Thm_C3 ==
    \A i, j \in 1..Len(issues) :
        i < j => \E a, b \in 1..Len(registered_tags) :
                    /\ a < b
                    /\ registered_tags[a] = issues[i].pattern
                    /\ registered_tags[b] = issues[j].pattern

\* the typescript trigger is first in the text, its issue second in the list
Wit_C3 ==
    /\ pc = "returned"
    /\ input = <<"error TS2339: Property", "npm ERR! code EUSAGE">>
    /\ Len(issues) = 2
    /\ issues[1].pattern = "npm_ci_failure"
    /\ issues[2].pattern = "typescript_error"

seq_elems(s) == {s[i] : i \in 1..Len(s)}

\* the literals the rules register as triggers: the pattern lists, and the
\* literals of the two compound rules
trigger_literals ==
    UNION {seq_elems(node_version_patterns), seq_elems(env_var_patterns),
           seq_elems(npm_ci_patterns), seq_elems(pnpm_patterns),
           seq_elems(yarn_patterns), seq_elems(amplify_yml_patterns),
           seq_elems(out_of_memory_patterns), seq_elems(timeout_patterns),
           seq_elems(artifact_path_patterns), seq_elems(typescript_patterns),
           seq_elems(eslint_patterns), seq_elems(module_not_found_patterns),
           seq_elems(permission_patterns), seq_elems(network_patterns),
           seq_elems(docker_patterns), seq_elems(python_patterns),
           seq_elems(nextjs_patterns), seq_elems(vite_patterns),
           {"npm WARN", "package-lock.json", "npm-shrinkwrap.json",
            "pnpm-lock.yaml", "yarn.lock", "npm install", "npm ci",
            "pnpm install", "yarn install"}}

\* the content contains no trigger literal, in whatever letter case
trigger_literals_lower == {to_lowercase(lit) : lit \in trigger_literals}

no_trigger(content) ==
    LET content_lower == to_lowercase(content)
    IN  \A lit \in trigger_literals_lower : ~contains(content_lower, lit)

\* the content contains no trigger literal spelled as it is registered
no_trigger_as_written(content) ==
    \A lit \in trigger_literals : ~contains(content, lit)

\* C4 as stated: a corpus that contains none of the registered trigger
\* literals yields no issue at all.
Claim_C4 ==
    (pc = "returned" /\ no_trigger_as_written(raw)) => issues = <<>>

\* C4, amended: a corpus that contains none of the registered trigger
\* literals in any letter case yields no issue at all.
Thm_C4 ==
    (pc = "returned" /\ issues # <<>>) => ~no_trigger(raw)

\* a success line and a line holding an indicator word but no trigger
Wit_C4 ==
    /\ pc = "returned"
    /\ input = <<"Build completed successfully", "error during build:">>
    /\ no_trigger(raw)
    /\ issues = <<>>

\* the rules the tests exercise: tag, trigger literals, and the indicator
\* literals of the rules that require one
tested_rules ==
    {[tag |-> "npm_ci_failure", patterns |-> npm_ci_patterns, indicators |-> <<>>],
     [tag |-> "out_of_memory", patterns |-> out_of_memory_patterns, indicators |-> <<>>],
     [tag |-> "node_version_mismatch", patterns |-> node_version_patterns, indicators |-> <<>>],
     [tag |-> "typescript_error", patterns |-> typescript_patterns, indicators |-> <<>>],
     [tag |-> "module_not_found", patterns |-> module_not_found_patterns, indicators |-> <<>>],
     [tag |-> "nextjs_error", patterns |-> nextjs_patterns, indicators |-> nextjs_indicators],
     [tag |-> "vite_error", patterns |-> vite_patterns, indicators |-> vite_indicators],
     [tag |-> "timeout", patterns |-> timeout_patterns, indicators |-> <<>>],
     [tag |-> "permission_denied", patterns |-> permission_patterns, indicators |-> <<>>],
     [tag |-> "network_error", patterns |-> network_patterns, indicators |-> <<>>],
     [tag |-> "pnpm_install_failure", patterns |-> pnpm_patterns, indicators |-> <<>>]}

\* the content holds a trigger literal of the rule as registered, and an
\* indicator literal as registered if the rule requires one
triggered(rule, content) ==
    /\ any_contains(content, rule.patterns)
    /\ (rule.indicators = <<>> \/ any_contains(content, rule.indicators))

\* C5: for each rule the tests exercise, a corpus that holds one of the rule's
\* trigger literals (with an indicator literal where the rule requires one),
\* whatever else it holds, yields exactly one issue with the rule's tag.
Thm_C5 ==
    pc = "returned" =>
        \A rule \in tested_rules :
            triggered(rule, raw) => tag_count(rule.tag) = 1

\* the Next.js trigger on one line, the indicator on another
Wit_C5 ==
    /\ pc = "returned"
    /\ input = <<"> next build", "error during build:">>
    /\ triggered([tag |-> "nextjs_error", patterns |-> nextjs_patterns,
                  indicators |-> nextjs_indicators], raw)
    /\ tag_count("nextjs_error") = 1

----------------------------------------------------------------------------
(* Properties of analyze_logs on case variants, checked under SpecCaseFold *)

\* the content holds a trigger literal of the rule in some letter case, and
\* an indicator literal in some letter case if the rule requires one
triggered_in_any_case(rule, text) ==
    LET text_lower == to_lowercase(text)
    IN  /\ any_contains(text_lower, lowered(rule.patterns))
        /\ (rule.indicators = <<>>
            \/ any_contains(text_lower, lowered(rule.indicators)))

\* C20 as stated: a rule fires on a corpus that holds one of its literals in
\* another letter case as it fires on the registered spelling: every any-of
\* or pattern+indicator rule whose literal the corpus holds in some letter
\* case (with an indicator in some letter case where one is required) has its
\* tag among the issues returned.
Claim_C20 ==
    pc = "returned" =>
        \A rule \in tested_rules :
            triggered_in_any_case(rule, raw) => tag_count(rule.tag) = 1

\* the corpus holds a literal of npm_ci_failure in lower case only, and
\* analyze_logs returns no issue
Wit_C20 ==
    /\ pc = "returned"
    /\ input = <<"npm err! code eusage">>
    /\ triggered_in_any_case(
          [tag |-> "npm_ci_failure", patterns |-> npm_ci_patterns,
           indicators |-> <<>>], raw)
    /\ issues = <<>>

----------------------------------------------------------------------------
(* Properties of the rules that ask for an indicator, checked under SpecGate *)

\* the rules that ask for a signal literal and an indicator literal
gated_rules ==
    {[tag |-> "missing_env_vars", patterns |-> env_var_patterns,
      indicators |-> env_var_indicators],
     [tag |-> "amplify_yml_error", patterns |-> amplify_yml_patterns,
      indicators |-> amplify_yml_indicators],
     [tag |-> "artifact_path_error", patterns |-> artifact_path_patterns,
      indicators |-> artifact_path_context],
     [tag |-> "yarn_install_failure", patterns |-> yarn_patterns,
      indicators |-> yarn_indicators],
     [tag |-> "eslint_error", patterns |-> eslint_patterns,
      indicators |-> eslint_indicators],
     [tag |-> "docker_error", patterns |-> docker_patterns,
      indicators |-> docker_indicators],
     [tag |-> "python_error", patterns |-> python_patterns,
      indicators |-> python_indicators],
     [tag |-> "nextjs_error", patterns |-> nextjs_patterns,
      indicators |-> nextjs_indicators],
     [tag |-> "vite_error", patterns |-> vite_patterns,
      indicators |-> vite_indicators]}

\* C21 as stated: a corpus that holds a signal literal of a rule and none of
\* the indicator literals of the rule yields no issue with the tag of the rule.
Claim_C21 ==
    pc = "returned" =>
        \A rule \in gated_rules :
            (any_contains(raw, rule.patterns) /\ ~any_contains(raw, rule.indicators))
                => tag_count(rule.tag) = 0

\* C21, amended: a corpus that holds a signal literal of a rule and none of
\* the indicator literals of the rule in any letter case yields no issue
\* with the tag of the rule.
Thm_C21 ==
    pc = "returned" =>
        \A rule \in gated_rules :
            (/\ any_contains(raw, rule.patterns)
             /\ ~any_contains(to_lowercase(raw), lowered(rule.indicators)))
                => tag_count(rule.tag) = 0

\* signals of python_error and docker_error and no indicator of either
Wit_C21 ==
    /\ pc = "returned"
    /\ input = <<"pip install", "Dockerfile">>
    /\ any_contains(raw, python_patterns)
    /\ ~any_contains(to_lowercase(raw), lowered(python_indicators))
    /\ issues = <<>>

\* C24 as stated: a corpus that holds a signal literal and an indicator
\* literal of a rule, wherever they are, yields the issue of the rule.
Claim_C24 ==
    pc = "returned" =>
        \A rule \in gated_rules :
            (any_contains(raw, rule.patterns) /\ any_contains(raw, rule.indicators))
                => tag_count(rule.tag) = 1

\* the signal "ESLint" and the indicator "error" are both in the corpus and
\* eslint_error is not among the issues
Wit_C24 ==
    /\ pc = "returned"
    /\ input = <<"ESLint", "error">>
    /\ any_contains(raw, eslint_patterns)
    /\ any_contains(raw, eslint_indicators)
    /\ tag_count("eslint_error") = 0

\* C22: analyze_logs and the checkers leave the corpus as it was: before,
\* between and after the checkers, raw_content, build_log and deploy_log are
\* the ones the call was made with, so every checker reads the same text.
Thm_C22 ==
    pc \in {"analyze_logs", "returned"} =>
        /\ log_content.raw_content = join_lines(input)
        /\ log_content.build_log = join_lines(input)
        /\ log_content.deploy_log = ""

\* all twenty checkers ran, docker_error lower-cased its copy of the text, and
\* the corpus still holds the capital letter
Wit_C22 ==
    /\ pc = "returned"
    /\ input = <<"Dockerfile", "error">>
    /\ Len(evaluated) = Len(checkers)
    /\ tag_count("docker_error") = 1
    /\ log_content.raw_content = "Dockerfile\nerror\n"

----------------------------------------------------------------------------
(* Properties of the two compound rules, checked under SpecInstall *)

\* the install commands of each package manager
install_commands ==
    [npm |-> {"npm install", "npm ci"},
     pnpm |-> {"pnpm install"},
     yarn |-> {"yarn install"}]

\* the package managers a line of the corpus invokes
invoked ==
    {manager \in DOMAIN install_commands :
        \E i \in 1..Len(input) : input[i] \in install_commands[manager]}

\* C23 as stated: a corpus in which exactly one package manager is invoked
\* never yields package_manager_conflict, and a corpus invoking two or three
\* always does.
Claim_C23 ==
    pc = "returned" =>
        /\ Cardinality(invoked) = 1 => tag_count("package_manager_conflict") = 0
        /\ Cardinality(invoked) >= 2 => tag_count("package_manager_conflict") = 1

\* pnpm is the only package manager invoked and package_manager_conflict is
\* among the issues
Wit_C23 ==
    /\ pc = "returned"
    /\ input = <<"pnpm install">>
    /\ invoked = {"pnpm"}
    /\ tag_count("package_manager_conflict") = 1

\* C25 as stated: lockfile_mismatch is emitted exactly when raw_content holds
\* "npm WARN" together with "pnpm-lock.yaml" or "yarn.lock".
Claim_C25 ==
    pc = "returned" =>
        (tag_count("lockfile_mismatch") = 1
            <=> /\ contains(raw, "npm WARN")
                /\ contains(raw, "pnpm-lock.yaml") \/ contains(raw, "yarn.lock"))

\* C25, amended: lockfile_mismatch is emitted exactly when raw_content holds
\* "npm WARN" together with an npm lock-file name ("package-lock.json" or
\* "npm-shrinkwrap.json") and a non-npm lock-file name ("pnpm-lock.yaml" or
\* "yarn.lock"): never without all three, always with all three, and once.
Thm_C25 ==
    pc = "returned" =>
        /\ tag_count("lockfile_mismatch") <= 1
        /\ tag_count("lockfile_mismatch") = 1
            <=> /\ contains(raw, "npm WARN")
                /\ contains(raw, "package-lock.json") \/ contains(raw, "npm-shrinkwrap.json")
                /\ contains(raw, "pnpm-lock.yaml") \/ contains(raw, "yarn.lock")

\* the npm warning names package-lock.json, yarn.lock is in the log, and
\* lockfile_mismatch is the first issue
Wit_C25 ==
    /\ pc = "returned"
    /\ input = <<"npm WARN old lockfile package-lock.json", "yarn.lock">>
    /\ Len(issues) >= 1
    /\ issues[1].pattern = "lockfile_mismatch"

----------------------------------------------------------------------------
(* Properties of the issues and of the fields read, checked under SpecEmit *)

\* C27: every Issue a checker emits has a non-empty pattern tag, a non-empty
\* root cause and between 2 and 4 suggested fixes, the tag is the one
\* registered for the checker that emitted it, and the tags of the twenty
\* checkers are pairwise distinct.
Thm_C27 ==
    /\ \A i \in 1..Len(issues) :
        /\ issues[i].pattern # ""
        /\ issues[i].root_cause # ""
        /\ Len(issues[i].suggested_fixes) \in 2..4
        /\ \E k \in 1..Len(evaluated) : issues[i].pattern = registered_tags[k]
    /\ Cardinality(issue_tags) = Len(issues)
    /\ Len(registered_tags) = Len(checkers)
    /\ \A j, k \in DOMAIN registered_tags :
        registered_tags[j] = registered_tags[k] => j = k

\* every one of the twenty checkers has emitted its Issue
Wit_C27 ==
    /\ pc = "returned"
    /\ input = emit_lines
    /\ Len(issues) = 20
    /\ \A k \in 1..20 : issues[k].pattern = registered_tags[k]

\* C28: the result of analyze_logs depends on raw_content only: the issues
\* of the run are the issues of every LogContent with the same raw_content,
\* whatever its build_log and deploy_log.
Thm_C28 ==
    pc = "returned" =>
        \A b \in FieldTexts \cup {raw}, d \in FieldTexts :
            issues = analyze_logs([build_log |-> b, deploy_log |-> d,
                                   raw_content |-> raw])

\* build_log alone would give npm_ci_failure, deploy_log alone out_of_memory;
\* the issue returned is the one of raw_content
Wit_C28 ==
    /\ pc = "returned"
    /\ log_content.build_log = "npm ERR! code EUSAGE\n"
    /\ log_content.deploy_log = "OOMKilled\n"
    /\ input = <<"ETIMEDOUT">>
    /\ issue_tags = {"timeout"}

----------------------------------------------------------------------------
(* Properties of download_job_logs and Commands::Diagnose, checked under Spec *)

\* the outcome of the i-th fetch issued so far
fetch_outcome(i) == download_and_extract_log(requests[i].url, requests[i].resp)

\* every fetch issued so far has succeeded
all_fetched == \A i \in 1..Len(requests) : fetch_outcome(i).tag = "Ok"

\* the steps of the job that have a log reference, in the order of the job
referenced_steps == SelectSeq(steps, LAMBDA s : s.log_url # None)

\* every reference of the job has been fetched, in the order of the job
complete ==
    /\ Len(requests) = Len(referenced_steps)
    /\ \A i \in 1..Len(requests) : requests[i].url = referenced_steps[i].log_url[1]
    /\ all_fetched

\* C6: a fetch or extraction that fails ends download_job_logs with the error
\* of that artifact and without a LogContent, and no further fetch is issued;
\* an Ok(LogContent) is returned only when the list is not empty and every
\* reference of the list was fetched and extracted successfully.
Thm_C6 ==
    /\ \A i \in 1..Len(requests) :
          fetch_outcome(i).tag = "Err" =>
              /\ i = Len(requests)
              /\ downloaded = Err(fetch_outcome(i).error)
              /\ pc \in {"download_returned", "exited"}
    /\ downloaded.tag = "Err" => DOMAIN downloaded = {"tag", "error"}
    /\ downloaded.tag = "Ok" => (referenced_steps # <<>> /\ complete)

\* the first artifact is fetched, the second one cannot be decoded
Wit_C6 ==
    /\ Len(requests) = 2
    /\ fetch_outcome(1).tag = "Ok"
    /\ fetch_outcome(2).tag = "Err"
    /\ downloaded.tag = "Err"
    /\ downloaded.error.kind = "extraction"
    /\ pc = "exited"

\* C7: when the job has no log reference, download_job_logs issues no fetch,
\* never enters the loop and never returns Ok; once the list is known to be
\* empty it returns the "No log URLs found" error, which no other failure
\* produces; and no Ok(LogContent) has its three fields empty.
Thm_C7 ==
    /\ referenced_steps = <<>> =>
          /\ requests = <<>>
          /\ pc \notin {"download_loop", "output"}
          /\ downloaded.tag # "Ok"
          /\ downloaded.tag = "Err" =>
                downloaded.error.kind \in {"no_log_urls", "get_job_details"}
          /\ pc = "download_returned" => downloaded.tag = "Err"
    /\ downloaded.tag = "Err" =>
          ((downloaded.error.kind = "no_log_urls")
              <=> (downloaded.error.message = "No log URLs found for job " \o JobId))
    /\ (downloaded.tag = "Err" /\ downloaded.error.kind = "no_log_urls") =>
          (referenced_steps = <<>> /\ requests = <<>>)
    /\ downloaded.tag = "Ok" =>
          /\ downloaded.value # LogContentDefault
          /\ downloaded.value.raw_content # ""

\* a job with steps none of which has a log reference
Wit_C7 ==
    /\ Len(steps) = 2
    /\ referenced_steps = <<>>
    /\ downloaded.tag = "Err"
    /\ downloaded.error.kind = "no_log_urls"
    /\ requests = <<>>
    /\ pc = "exited"

\* C8: analyze_logs runs at most once, only after download_job_logs has
\* returned Ok for the complete list of references, and on the LogContent it
\* returned; when a fetch or the download fails, analyze_logs is not called
\* and nothing is output; what is output holds the issues of that one call.
Thm_C8 ==
    /\ analyze_calls <= 1
    /\ pc \in {"Diagnose", "download_job_logs", "download_loop", "download_returned"}
          => analyze_calls = 0
    /\ analyze_calls = 1 =>
          /\ downloaded.tag = "Ok"
          /\ complete
          /\ downloaded.value = log_content
    /\ pc = "output" => (analyze_calls = 1 /\ issues = analyze_logs(downloaded.value))
    /\ (downloaded.tag = "Err" \/ ~all_fetched) =>
          (analyze_calls = 0 /\ issues = <<>> /\ outputs = <<>>)
    /\ outputs # <<>> =>
          /\ analyze_calls = 1
          /\ Len(outputs) = 1
          /\ outputs[1].issues = issues

\* two artifacts are assembled, analyzed once, and the diagnosis is output
Wit_C8 ==
    /\ Len(requests) = 2
    /\ complete
    /\ analyze_calls = 1
    /\ Len(outputs) = 1
    /\ Len(outputs[1].issues) = 2
    /\ pc = "exited"

\* the text the i-th fetch issued so far has extracted
fetched_text(i) == fetch_outcome(i).value

\* the sections of the first n referenced steps, first step first
RECURSIVE sections(_)
sections(n) ==
    IF n = 0 THEN ""
    ELSE sections(n - 1)
         \o "=== " \o referenced_steps[n].step_name \o " ===" \o "\n"
         \o fetched_text(n) \o "\n" \o "\n"

\* C9: when every reference is fetched, raw_content is the concatenation, in
\* the order of the steps of the job, of the line "=== name ===", the text of
\* the step and a blank line; the fetches are issued in that order, and during
\* the loop raw_content holds the sections of the steps fetched so far.
Thm_C9 ==
    /\ pc = "download_loop" =>
          (all_fetched /\ idx = Len(requests) + 1
           /\ log_content.raw_content = sections(Len(requests)))
    /\ downloaded.tag = "Ok" =>
          /\ complete
          /\ downloaded.value.raw_content = sections(Len(referenced_steps))

\* the deploy step is listed before the build step and their texts differ
Wit_C9 ==
    /\ downloaded.tag = "Ok"
    /\ Len(steps) = 2
    /\ steps[1].step_name = "DEPLOY"
    /\ steps[2].step_name = "BUILD"
    /\ downloaded.value.raw_content =
          "=== DEPLOY ===\nnpm ERR! code EUSAGE\nENOMEM\n\n"
          \o "=== BUILD ===\nBuild succeeded\n\n"

\* the texts of the first n referenced steps whose lowered name contains the
\* keyword, each followed by a newline
RECURSIVE keyword_texts(_, _)
keyword_texts(keyword, n) ==
    IF n = 0 THEN ""
    ELSE keyword_texts(keyword, n - 1)
         \o (IF contains(to_lowercase(referenced_steps[n].step_name), keyword)
             THEN fetched_text(n) \o "\n"
             ELSE "")

\* a referenced step whose name holds both keywords
both_keywords(s) ==
    /\ contains(to_lowercase(s.step_name), "build")
    /\ contains(to_lowercase(s.step_name), "deploy")

\* C10 as stated: the text of a step whose name holds "build" and "deploy" is
\* appended to build_log and to deploy_log, so each of the two holds the texts
\* of all the steps whose name holds its keyword.
Claim_C10 ==
    downloaded.tag = "Ok" =>
        /\ downloaded.value.build_log = keyword_texts("build", Len(referenced_steps))
        /\ downloaded.value.deploy_log = keyword_texts("deploy", Len(referenced_steps))

\* a job whose only step is named with both keywords is assembled: its text is
\* in build_log and deploy_log is empty
Wit_C10 ==
    /\ downloaded.tag = "Ok"
    /\ Len(referenced_steps) = 1
    /\ both_keywords(referenced_steps[1])
    /\ downloaded.value.build_log = fetched_text(1) \o "\n"
    /\ downloaded.value.deploy_log = ""

\* the texts of the first n referenced steps whose name is one of `names`,
\* each followed by a newline
RECURSIVE texts_of(_, _)
texts_of(names, n) ==
    IF n = 0 THEN ""
    ELSE texts_of(names, n - 1)
         \o (IF referenced_steps[n].step_name \in names
             THEN fetched_text(n) \o "\n"
             ELSE "")

\* C11: a step named "TEST", which holds neither keyword in any letter case,
\* adds nothing to build_log and deploy_log and a section to raw_content;
\* "BUILD" and "Build" both feed build_log: during the loop and when the
\* logs are returned, build_log holds the texts of the steps named "BUILD",
\* "Build" or "BuildAndDeploy" and deploy_log those of the steps named "DEPLOY",
\* while raw_content holds a section for every step.
Thm_C11 ==
    (pc = "download_loop" \/ downloaded.tag = "Ok") =>
        /\ log_content.build_log =
              texts_of({"BUILD", "Build", "BuildAndDeploy"}, Len(requests))
        /\ log_content.deploy_log = texts_of({"DEPLOY"}, Len(requests))
        /\ log_content.raw_content = sections(Len(requests))
        /\ \A k \in 1..Len(requests) :
              contains(log_content.raw_content,
                       "=== " \o referenced_steps[k].step_name \o " ===\n")

\* a step named "Build" is followed by a step named "TEST"
Wit_C11 ==
    /\ downloaded.tag = "Ok"
    /\ Len(requests) = 2
    /\ referenced_steps[1].step_name = "Build"
    /\ referenced_steps[2].step_name = "TEST"
    /\ fetched_text(1) = "Build succeeded"
    /\ downloaded.value.build_log = "Build succeeded\n"
    /\ downloaded.value.deploy_log = ""
    /\ contains(downloaded.value.raw_content, "=== TEST ===\n")

\* the i-th fetch got a response whose status is no success
status_failure(i) ==
    /\ requests[i].resp.kind = "response"
    /\ requests[i].resp.status \notin 200..299

\* the i-th fetch got no response
transport_failure(i) == requests[i].resp.kind = "transport_error"

\* C15: a fetch whose response has a non-success status ends
\* download_job_logs with an error that holds the status code; the body of
\* the response is not read, no later reference is fetched, and the step
\* adds nothing to the LogContent, which is not returned, analyzed or output.
Thm_C15 ==
    \A i \in 1..Len(requests) :
        status_failure(i) =>
            /\ ~requests[i].bytes_called
            /\ i = Len(requests)
            /\ downloaded.tag = "Err"
            /\ contains(downloaded.error.message, ToString(requests[i].resp.status))
            /\ log_content.raw_content = sections(i - 1)
            /\ log_content.build_log =
                  texts_of({"BUILD", "Build", "BuildAndDeploy"}, i - 1)
            /\ log_content.deploy_log = texts_of({"DEPLOY"}, i - 1)
            /\ analyze_calls = 0
            /\ outputs = <<>>

\* the first step is fetched, the second is answered with status 403
Wit_C15 ==
    /\ Len(requests) = 2
    /\ requests[2].resp.status = 403
    /\ downloaded.tag = "Err"
    /\ downloaded.error.message = "Failed to download logs: HTTP 403 Forbidden"
    /\ log_content.raw_content = sections(1)
    /\ pc = "exited"

\* C16 as stated: whatever makes a fetch fail, the error download_job_logs
\* returns holds the URL or the step name of the reference that failed.
Claim_C16 ==
    (downloaded.tag = "Err" /\ requests # <<>>) =>
        \/ contains(downloaded.error.message, requests[Len(requests)].url)
        \/ contains(downloaded.error.message,
                    referenced_steps[Len(requests)].step_name)

\* the only step of the job is answered with status 500, and the error
\* names neither the URL nor the step
Wit_C16 ==
    /\ Len(requests) = 1
    /\ status_failure(1)
    /\ downloaded.tag = "Err"
    /\ downloaded.error.message = "Failed to download logs: HTTP 500 Internal Server Error"
    /\ ~contains(downloaded.error.message, requests[1].url)
    /\ ~contains(downloaded.error.message, referenced_steps[1].step_name)

\* s begins with p
begins_with(s, p) == Len(s) >= Len(p) /\ SubSeq(s, 1, Len(p)) = p

\* C17: the error of a GET that yields no response begins "Failed to download
\* logs from" and names no status; the error of a response with a non-success
\* status begins "Failed to download logs: HTTP": neither is reported as the
\* other.
Thm_C17 ==
    \A i \in 1..Len(requests) :
        /\ transport_failure(i) =>
              /\ downloaded.tag = "Err"
              /\ begins_with(downloaded.error.message, "Failed to download logs from ")
              /\ ~begins_with(downloaded.error.message, "Failed to download logs: HTTP")
        /\ status_failure(i) =>
              /\ downloaded.tag = "Err"
              /\ begins_with(downloaded.error.message, "Failed to download logs: HTTP ")
              /\ ~begins_with(downloaded.error.message, "Failed to download logs from")

\* the GET of the first step yields no response
Wit_C17 ==
    /\ Len(requests) = 1
    /\ transport_failure(1)
    /\ downloaded.tag = "Err"
    /\ downloaded.error.message = "Failed to download logs from https://logs.example/1"

\* C18: the references are requested in the order of the list, each at most
\* once; a fetch that fails is the last request of the call, and its error
\* is what the call and then the command return.
Thm_C18 ==
    /\ Len(requests) <= Len(log_urls)
    /\ \A i \in 1..Len(requests) : requests[i].url = log_urls[i][2]
    /\ \A i, j \in 1..Len(requests) : i # j => requests[i].url # requests[j].url
    /\ \A i \in 1..Len(requests) :
          fetch_outcome(i).tag = "Err" =>
              /\ i = Len(requests)
              /\ downloaded = fetch_outcome(i)
              /\ pc = "exited" => result = downloaded

\* the first of two references fails and the second is never requested
Wit_C18 ==
    /\ Len(log_urls) = 2
    /\ Len(requests) = 1
    /\ fetch_outcome(1).tag = "Err"
    /\ pc = "exited"
    /\ result = downloaded

\* C26: the fetches are issued one at a time in the order of the references:
\* when the GET of a reference is issued, every earlier reference has been
\* fetched, extracted and appended, and the loop is about to fetch the
\* reference after the appended ones; once a fetch or an extraction has
\* failed, the loop is left and no later reference is requested.
Thm_C26 ==
    /\ \A i \in 1..Len(requests) :
          /\ requests[i].url = log_urls[i][2]
          /\ i < Len(requests) =>
                /\ fetch_outcome(i).tag = "Ok"
                /\ begins_with(log_content.raw_content, sections(i))
    /\ pc = "download_loop" => Len(requests) = idx - 1
    /\ (\E i \in 1..Len(requests) : fetch_outcome(i).tag = "Err") =>
          /\ pc # "download_loop"
          /\ Len(requests) = idx

\* between two fetches: the first reference is fetched and its section
\* appended, the GET of the second one is not issued yet
Wit_C26 ==
    /\ pc = "download_loop"
    /\ Len(log_urls) = 2
    /\ Len(requests) = 1
    /\ idx = 2
    /\ log_content.raw_content = sections(1)

----------------------------------------------------------------------------
(* Properties of extract_log_content, checked under SpecExtract *)

\* the first two bytes of the buffer are the two bytes of the prefix
starts_with(b, prefix) ==
    Len(b.bytes) >= 2 /\ b.bytes[1] = prefix[1] /\ b.bytes[2] = prefix[2]

zip_magic == <<80, 75>>
gzip_magic == <<31, 139>>

\* the format the first two bytes of the buffer stand for
format_of_prefix(b) ==
    IF starts_with(b, zip_magic) THEN "zip"
    ELSE IF starts_with(b, gzip_magic) THEN "gzip"
    ELSE "plain"

\* C12 as stated: the format is decided by the first two bytes of the buffer
\* only: 0x50 0x4B is handled as ZIP, 0x1F 0x8B as GZIP, everything else is
\* decoded as plain UTF-8, and no buffer with a magic prefix is decoded as
\* plain text.
Claim_C12 ==
    pc = "extracted" => format = format_of_prefix(log_bytes)

\* the two bytes "PK" alone are decoded as plain text
Wit_C12 ==
    /\ pc = "extracted"
    /\ log_bytes.bytes = <<80, 75>>
    /\ format = "plain"
    /\ result = Ok("PK")

\* C13 as stated: a ZIP archive whose single file holds a text, the GZIP
\* compression of a text, and the plain bytes of a text that does not start
\* with a magic prefix are each extracted to exactly that text.
Claim_C13 ==
    pc = "extracted" =>
        /\ \A f \in Files :
              (f.opens /\ f.decodes /\ log_bytes = zip_buffer(<<f>>))
                  => result = Ok(f.text)
        /\ \A text \in Texts :
              /\ log_bytes = gzip_buffer(text) => result = Ok(text)
              /\ (log_bytes = plain_buffer(text)
                  /\ format_of_prefix(log_bytes) = "plain") => result = Ok(text)

\* an archive of the single file build.log is extracted to the text of the
\* file followed by a newline
Wit_C13 ==
    /\ pc = "extracted"
    /\ log_bytes =
          zip_buffer(<<ZipFile("build.log", TRUE, TRUE, "Build completed successfully")>>)
    /\ result = Ok("Build completed successfully\n")

\* the buffer is no artifact that can be extracted as a whole: a magic
\* prefix followed by bytes that are no archive and no stream, an archive
\* with a file that cannot be read or decoded, or plain bytes that are not
\* UTF-8
malformed(b) ==
    \/ /\ format_of_prefix(b) # "plain"
       /\ Len(b.bytes) > 2
       /\ b.zip.tag = "Err"
       /\ b.gzip.tag = "Err"
    \/ /\ b.zip.tag = "Ok"
       /\ \E k \in 1..Len(b.zip.value) :
             ~(b.zip.value[k].opens /\ b.zip.value[k].decodes)
    \/ /\ format_of_prefix(b) = "plain"
       /\ from_utf8(b.bytes).tag = "Err"

\* C14 as stated: a malformed buffer yields an error, and a string is
\* returned for an archive only when it holds the text of every file.
Claim_C14 ==
    pc = "extracted" =>
        /\ malformed(log_bytes) => result.tag = "Err"
        /\ (result.tag = "Ok" /\ format = "zip") =>
              file_index = Len(log_bytes.zip.value)

\* the ZIP magic bytes followed by one more byte are returned as a text
Wit_C14 ==
    /\ pc = "extracted"
    /\ log_bytes.bytes = <<80, 75, 33>>
    /\ malformed(log_bytes)
    /\ result = Ok("PK!")

----------------------------------------------------------------------------
(* Properties of download_outputs_file, checked under SpecOutputs *)

\* what the search in the i-th artifact requested gave
find_outcome(i) == download_and_find_outputs(attempts[i].url, attempts[i].resp)

\* the i-th artifact requested holds amplify_outputs.json
found(i) == find_outcome(i).tag = "Ok" /\ find_outcome(i).value # None

\* the artifacts are visited in list order, one after the other, and an
\* artifact is visited only when every artifact before it failed or lacked
\* the file; while the loop runs nothing is written
visited_in_order ==
    /\ Len(attempts) <= Len(artifact_urls)
    /\ \A i \in 1..Len(attempts) :
          /\ attempts[i].url = artifact_urls[i][2]
          /\ i < Len(attempts) => ~found(i)
    /\ pc = "outputs_loop" => Len(attempts) = artifact - 1
    /\ pc # "outputs_returned" => output_file = None
    /\ Len(stderr) =
          Cardinality({i \in 1..Len(attempts) : find_outcome(i).tag = "Err"})

\* no artifact yielded the file: the call has failed, every artifact of the
\* list was visited, and nothing is written
none_found ==
    /\ result.tag = "Err"
    /\ result.error.kind \in {"get_artifact_urls", "no_artifacts", "not_found"}
    /\ result.error.kind = "not_found" =>
          (artifact_urls # <<>> /\ Len(attempts) = Len(artifact_urls))
    /\ result.error.kind # "not_found" => attempts = <<>>
    /\ output_file = None

\* the content of the last artifact visited is written and returned
returned_last ==
    LET content == find_outcome(Len(attempts)).value[1]
    IN  /\ result = Ok([file_path |-> OutputPath, content |-> content])
        /\ output_file = Some(content)

----------------------------------------------------------------------------
(* Properties of analyze_project, checked under SpecMigration *)

\* analyze_project has returned the analysis of a Gen1 project
completed_gen1 ==
    /\ pc = "migration_returned"
    /\ result.tag = "Ok"
    /\ result.value.generation = "Gen1"

\* C30 as stated: after compute_summary, total_features is the number of
\* detected features and the sum of the four counts, ready_for_migration is
\* true exactly when there is no blocking issue and no unsupported feature,
\* and a completed Gen1 analysis that is not ready lists a blocking issue.
Claim_C30 ==
    completed_gen1 =>
        LET a == result.value
            s == a.summary
        IN  /\ s.total_features = Len(a.features)
            /\ s.total_features = s.fully_supported + s.supported_with_cdk
                                  + s.not_supported + s.manual_migration
            /\ a.ready_for_migration
                  <=> (a.blocking_issues = <<>> /\ s.not_supported = 0)
            /\ ~a.ready_for_migration => a.blocking_issues # <<>>

\* a function with Lambda layers: the analysis counts one unsupported
\* feature, is not ready for migration and lists no blocking issue
Wit_C30 ==
    /\ completed_gen1
    /\ project.function = Some("{\"lambdaLayers\":[{}]}")
    /\ result.value.summary.not_supported = 1
    /\ ~result.value.ready_for_migration
    /\ result.value.blocking_issues = <<>>
    /\ result.value.warnings # <<>>

============================================================================
